---------------------------- MODULE Spec2Model ----------------------------
(***************************************************************************)
(* The interactive point-canvas engine of the gradient canvas tool         *)
(* (client/src/components/GradientCanvas.tsx): the point store, the linear *)
(* undo/redo history, the hit-test and the pointer-driven drag state       *)
(* machine, together with the property-panel edits that reach the store    *)
(* through ColorPicker / ImageCircle onUpdate.                             *)
(*                                                                         *)
(* Every React event handler is one action.  A handler reads the state of  *)
(* the render it was created in (the unprimed variables) and queues its    *)
(* setState calls (the primed variables); React re-renders before the next *)
(* discrete event is dispatched.                                           *)
(*                                                                         *)
(* Numbers.  Cursor positions, point centres, the pan offset and the focus *)
(* offset are integers.  A radius is a real number: the resize drag sets   *)
(* it to Math.max(20, Math.sqrt(dx^2 + dy^2)).  The model stores a length  *)
(* r by its square (field radiusSq, widthSq, heightSq), which is exact,    *)
(* and decides every comparison the code makes on r by the equivalent      *)
(* comparison on integers (see SqrtLeq, SqrtGeq).                          *)
(*                                                                         *)
(* The view is at zoom 1 with the canvas rectangle at the client origin,   *)
(* so that getCursorPosition returns (clientX, clientY) unchanged.         *)
(***************************************************************************)
EXTENDS Integers, Sequences, FiniteSets, TLC

(***************************************************************************)
(* Bounds of the model.                                                    *)
(***************************************************************************)
MaxPoints == 2
MaxEvents == 5
MaxStops == 3
MaxEdits == 3
MaxImageEvents == 4

(* useState<string | null>(null): the null of selectedPoint and of the     *)
(* three dragging ids.  Point ids are clock readings >= 1.                 *)
Null == 0

(* Cursor positions the pointer events are drawn from (canvas pixels).     *)
CursorPositions == {<<100, 100>>, <<120, 100>>, <<250, 100>>}

(* Pan offsets the view is allowed to take in the model.                   *)
PanValues == {<<0, 0>>, <<20, 0>>}

(* Values of the "Influence Radius" slider that the model tries.           *)
PanelRadii == {20}

(* Values of the shape select of the property panel that the model tries. *)
PanelShapes == {"square"}

VARIABLES
    points,          \* useState<GradientPoint[]>([])
    selectedPoint,   \* useState<string | null>(null)
    draggingPoint,   \* useState<string | null>(null)
    draggingRadius,  \* useState<string | null>(null)
    draggingFocus,   \* useState<string | null>(null)
    isPanning,       \* useState(false)
    panJustEnded,    \* useState(false)
    dragJustEnded,   \* useState(false)
    panStart,        \* useState({ x: 0, y: 0 })
    pan,             \* useState({ x: 0, y: 0 })
    history,         \* useState<GradientPoint[][]>([])
    historyIndex,    \* useState(-1)
    now,             \* the last reading of Date.now()
    stops,           \* point.gradientStops of the point in the property panel
    selectedStopId,  \* GradientEditor: useState(stops[0]?.id || null)
    draggingStopId,  \* GradientEditor: useState<string | null>(null)
    sliderDragging,  \* GradientStopSlider: draggingStopId, useState(null)
    pointColor,      \* point.color of the point in the property panel
    hexInput,        \* ColorPicker: useState(point.color)
    loadedImages,    \* useState<Map<string, HTMLImageElement>>(new Map()): its keys
    decoding,        \* per image URL, the Image objects created and not yet loaded
    canvasPasses,    \* what the last renderGradient drew, per pass
    renderDue,       \* a dependency of renderGradient changed since it last ran
    gradientType,    \* point.gradientType of the point in the property panel
    edgeType,        \* point.edgeType of that point
    opacity,         \* point.opacity of that point, in hundredths
    fillStyle,       \* ctx.fillStyle as renderGradient sets it for that point
    events           \* the number of events handled so far

(* The state of the component.                                             *)
state == <<points, selectedPoint, draggingPoint, draggingRadius, draggingFocus,
           isPanning, panJustEnded, dragJustEnded, panStart, pan,
           history, historyIndex, now>>

(* The state of the stop editors and of the HEX input of the property     *)
(* panel, with the two fields of the edited point they write.              *)
editor == <<stops, selectedStopId, draggingStopId, sliderDragging,
            pointColor, hexInput>>

(* The image cache of the canvas and the outcome of its last render.       *)
images == <<loadedImages, decoding, canvasPasses, renderDue>>

(* The fill of the point in the property panel: the fields that select    *)
(* it and the style the last render has computed from them.                *)
fill == <<gradientType, edgeType, opacity, fillStyle>>

vars == <<state, editor, images, fill, events>>

dragVars == <<draggingPoint, draggingRadius, draggingFocus, isPanning>>
flagVars == <<panJustEnded, dragJustEnded>>
histVars == <<history, historyIndex>>

(***************************************************************************)
(* Arithmetic on lengths stored by their square.                           *)
(***************************************************************************)
Max(a, b) == IF a >= b THEN a ELSE b

Sq(a) == a * a

Abs(a) == IF a >= 0 THEN a ELSE -a

(* The product of two naturals below 2^20 as <<high, low>> in base 1024:   *)
(* the products compared below exceed the 32-bit integers of TLC,          *)
(* while the code computes them exactly in double precision.               *)
WideMul(a, b) ==
    LET low == a * (b % 1024)
    IN  <<a * (b \div 1024) + (low \div 1024), low % 1024>>

WideLeq(p, q) == p[1] < q[1] \/ (p[1] = q[1] /\ p[2] <= q[2])

(* c * sqrt(n) <= k, for integers c, k and a natural n:                    *)
(* by the signs of c and k, and c^2 * n against k^2 otherwise.             *)
SqrtLeq(c, n, k) ==
    IF c >= 0
    THEN k >= 0 /\ WideLeq(WideMul(Sq(c), n), WideMul(Abs(k), Abs(k)))
    ELSE k >= 0 \/ WideLeq(WideMul(Abs(k), Abs(k)), WideMul(Sq(c), n))

(* c * sqrt(n) >= k, for integers c, k and a natural n.                    *)
SqrtGeq(c, n, k) == SqrtLeq(-c, n, -k)

(***************************************************************************)
(* History manager.                                                        *)
(***************************************************************************)
(* JSON.parse(JSON.stringify(pts)): a structural copy.  The point records  *)
(* hold finite numbers, strings, booleans and arrays of such records, all  *)
(* of which the round trip rebuilds field by field.                        *)
DeepCopy(pts) ==
    [i \in 1..Len(pts) |->
        [f \in DOMAIN pts[i] |->
            IF f = "gradientStops"
            THEN [j \in 1..Len(pts[i][f]) |->
                     [g \in DOMAIN pts[i][f][j] |-> pts[i][f][j][g]]]
            ELSE pts[i][f]]]

(* history.slice(0, historyIndex + 1) followed by push of the copy.        *)
NewHistory(newPoints) ==
    Append(SubSeq(history, 1, historyIndex + 1), DeepCopy(newPoints))

(* saveToHistory with the slice forgotten: the redo branch is kept.        *)
saveToHistoryKeepsFuture(newPoints) ==
    /\ history' = Append(history, DeepCopy(newPoints))
    /\ historyIndex' = Len(history)

saveToHistory(newPoints) ==
    /\ history' = NewHistory(newPoints)
    /\ historyIndex' = Len(NewHistory(newPoints)) - 1


(***************************************************************************)
(* Point store.                                                            *)
(***************************************************************************)
(* The value of the optional image field while it is not set.              *)
Undefined == "undefined"

(* The optional width and height (width?: number) while they are not set.  *)
NoLength == 0

(* Indices of the points carrying the given id, in store order.            *)
IndicesOf(pts, pointId) == {i \in 1..Len(pts) : pts[i].id = pointId}

MinOf(S) == CHOOSE i \in S : \A j \in S : i <= j

(* points.find(p => p.id === pointId): the first match, and whether there  *)
(* is one.                                                                 *)
Found(pts, pointId) == IndicesOf(pts, pointId) # {}

Find(pts, pointId) == pts[MinOf(IndicesOf(pts, pointId))]

(* The point literal of addPoint with the pointer position stored as it    *)
(* is, the pan offset not subtracted.                                      *)
NewPointAtPointer(x, y, t) ==
    [ id              |-> t,
      name            |-> [base |-> Len(points) + 1, copies |-> 0],
      x               |-> x,
      y               |-> y,
      color           |-> "#3b82f6",
      opacity         |-> 100,
      radiusSq        |-> Sq(150),
      edgeType        |-> "soft",
      shape           |-> "blob",
      focusX          |-> 0,
      focusY          |-> 0,
      gradientType    |-> "solid",
      gradientColors  |-> <<"#3b82f6", "#8b5cf6">>,
      gradientStops   |-> << [id |-> "stop-1", color |-> "#3b82f6", position |-> 0],
                             [id |-> "stop-2", color |-> "#8b5cf6", position |-> 100] >>,
      borderThickness |-> 8,
      borderBlur      |-> 0,
      image           |-> Undefined,
      widthSq         |-> NoLength,
      heightSq        |-> NoLength ]

(* The point literal of addPoint.  opacity is kept in hundredths (1 is     *)
(* 100); radius 150 is stored as its square.                               *)
NewPoint(x, y, t) ==
    [ id              |-> t,
      name            |-> [base |-> Len(points) + 1, copies |-> 0],
      x               |-> x - pan[1],
      y               |-> y - pan[2],
      color           |-> "#3b82f6",
      opacity         |-> 100,
      radiusSq        |-> Sq(150),
      edgeType        |-> "soft",
      shape           |-> "blob",
      focusX          |-> 0,
      focusY          |-> 0,
      gradientType    |-> "solid",
      gradientColors  |-> <<"#3b82f6", "#8b5cf6">>,
      gradientStops   |-> << [id |-> "stop-1", color |-> "#3b82f6", position |-> 0],
                             [id |-> "stop-2", color |-> "#8b5cf6", position |-> 100] >>,
      borderThickness |-> 8,
      borderBlur      |-> 0,
      image           |-> Undefined,
      widthSq         |-> NoLength,
      heightSq        |-> NoLength ]

(* { ...p, ...updates }                                                    *)
Merge(p, updates) ==
    [f \in DOMAIN p |-> IF f \in DOMAIN updates THEN updates[f] ELSE p[f]]

(* points.map(p => p.id === pointId ? { ...p, ...updates } : p)            *)
UpdatedPoints(pointId, updates) ==
    [i \in 1..Len(points) |->
        IF points[i].id = pointId THEN Merge(points[i], updates) ELSE points[i]]

updatePoint(pointId, updates) ==
    points' = UpdatedPoints(pointId, updates)

(* points.filter(p => p.id !== pointId)                                    *)
RECURSIVE Without(_, _)
Without(pts, pointId) ==
    IF pts = <<>> THEN <<>>
    ELSE IF Head(pts).id = pointId THEN Without(Tail(pts), pointId)
    ELSE <<Head(pts)>> \o Without(Tail(pts), pointId)

(* Date.now() read at a creation: the millisecond of the last reading, or  *)
(* a later one.                                                            *)
ClockReadings == {now, now + 1}

addPoint(x, y, t) ==
    /\ Len(points) < MaxPoints
    /\ now' = t
    /\ points' = Append(points, NewPoint(x, y, t))
    /\ saveToHistory(Append(points, NewPoint(x, y, t)))
    /\ selectedPoint' = t

(* { ...point, id, name, x: point.x + 20, y: point.y + 20 }                *)
Duplicate(point, t) ==
    Merge(point, [ id   |-> t,
                   name |-> [base |-> point.name.base, copies |-> point.name.copies + 1],
                   x    |-> point.x + 20,
                   y    |-> point.y + 20 ])

duplicatePoint(pointId, t) ==
    IF Found(points, pointId)
    THEN /\ Len(points) < MaxPoints
         /\ now' = t
         /\ points' = Append(points, Duplicate(Find(points, pointId), t))
         /\ saveToHistory(Append(points, Duplicate(Find(points, pointId), t)))
         /\ selectedPoint' = t
    ELSE UNCHANGED <<points, histVars, selectedPoint, now>>

(* deletePoint without its saveToHistory.                                   *)
deletePointNoCommit(pointId) ==
    /\ points' = Without(points, pointId)
    /\ UNCHANGED histVars
    /\ selectedPoint' = IF selectedPoint = pointId THEN Null ELSE selectedPoint

deletePoint(pointId) ==
    /\ points' = Without(points, pointId)
    /\ saveToHistory(Without(points, pointId))
    /\ selectedPoint' = IF selectedPoint = pointId THEN Null ELSE selectedPoint

(* undo with its guard off by one: the step back to the first entry is    *)
(* refused.                                                                *)
undoGuardOffByOne ==
    IF historyIndex > 1
    THEN /\ historyIndex' = historyIndex - 1
         /\ points' = DeepCopy(history[(historyIndex - 1) + 1])
         /\ UNCHANGED history
    ELSE UNCHANGED <<historyIndex, points, history>>

(* undo restoring the entry under the cursor instead of the one before it. *)
undoRestoresCurrent ==
    IF historyIndex > 0
    THEN /\ historyIndex' = historyIndex - 1
         /\ points' = DeepCopy(history[historyIndex + 1])
         /\ UNCHANGED history
    ELSE UNCHANGED <<historyIndex, points, history>>

(* undo that also drops the entry it steps back from.                      *)
undoPopsEntry ==
    IF historyIndex > 0
    THEN /\ historyIndex' = historyIndex - 1
         /\ points' = DeepCopy(history[(historyIndex - 1) + 1])
         /\ history' = SubSeq(history, 1, historyIndex)
    ELSE UNCHANGED <<historyIndex, points, history>>

(* undo stepping back from the first entry too, to the empty list that    *)
(* preceded it.                                                            *)
undoBelowFirstEntry ==
    IF historyIndex >= 0
    THEN /\ historyIndex' = historyIndex - 1
         /\ points' = IF historyIndex > 0
                      THEN DeepCopy(history[(historyIndex - 1) + 1])
                      ELSE <<>>
         /\ UNCHANGED history
    ELSE UNCHANGED <<historyIndex, points, history>>

undo ==
    IF historyIndex > 0
    THEN /\ historyIndex' = historyIndex - 1
         /\ points' = DeepCopy(history[(historyIndex - 1) + 1])
         /\ UNCHANGED history
    ELSE UNCHANGED <<historyIndex, points, history>>

(* redo that moves the cursor but leaves the live list as it is.           *)
redoKeepsPoints ==
    IF historyIndex < Len(history) - 1
    THEN /\ historyIndex' = historyIndex + 1
         /\ UNCHANGED <<points, history>>
    ELSE UNCHANGED <<historyIndex, points, history>>

redo ==
    IF historyIndex < Len(history) - 1
    THEN /\ historyIndex' = historyIndex + 1
         /\ points' = DeepCopy(history[(historyIndex + 1) + 1])
         /\ UNCHANGED history
    ELSE UNCHANGED <<historyIndex, points, history>>

(***************************************************************************)
(* Hit-test.                                                               *)
(***************************************************************************)
NoHit == [type |-> "none", id |-> Null]

(* The focus test taken from the canvas position of the handle, the pan    *)
(* offset not added.                                                       *)
FocusHitWithoutPan(p, x, y) ==
    Sq(p.x + p.focusX - x) + Sq(p.y + p.focusY - y) <= Sq(12)

(* focusDistance <= 12                                                     *)
FocusHit(p, x, y) ==
    Sq(p.x + pan[1] + p.focusX - x) + Sq(p.y + pan[2] + p.focusY - y) <= Sq(12)

(* radiusDistance <= 8, the handle at (screenX + radius, screenY):         *)
(* (a + r)^2 + b^2 <= 64  iff  2*a*r <= 64 - a^2 - r^2 - b^2.              *)
RadiusHit(p, x, y) ==
    LET a == p.x + pan[1] - x
        b == p.y + pan[2] - y
    IN  SqrtLeq(2 * a, p.radiusSq, Sq(8) - Sq(a) - p.radiusSq - Sq(b))

(* centerDistance <= 14                                                    *)
CenterHit(p, x, y) ==
    Sq(p.x + pan[1] - x) + Sq(p.y + pan[2] - y) <= Sq(14)

(* radius - 10 <= outerDistance <= radius + 10, with d = sqrt(dd):         *)
(* (d + 10)^2 >= r^2 iff 20*d >= r^2 - dd - 100, and                       *)
(* d - 10 <= r iff d <= 10 or (d - 10)^2 <= r^2 iff 20*d >= dd + 100 - r^2 *)
RingHit(p, x, y) ==
    LET dd == Sq(p.x + pan[1] - x) + Sq(p.y + pan[2] - y)
    IN  /\ SqrtGeq(20, dd, p.radiusSq - dd - 100)
        /\ SqrtGeq(20, dd, dd + 100 - p.radiusSq)

(* |u - k*r/m| <= 10 and |v| <= k*r/m for the four edges of a box whose    *)
(* half extents are hw = kw*r/m and hh = kh*r/m (square: r and r;          *)
(* rectangle: 3r/2 and 3r/4), u = x - screenX, v = y - screenY.            *)
NearEdge(u, v, kw, kh, m, rr) ==
    LET Within(q, k) == Sq(m * q) <= Sq(k) * rr              \* |q| <= k*r/m
        Near(q, k)   == /\ SqrtLeq(k, rr, m * (q + 10))      \* k*r/m - q <= 10
                        /\ SqrtGeq(k, rr, m * (q - 10))      \* k*r/m - q >= -10
    IN  \/ Near(-u, kw) /\ Within(v, kh)
        \/ Near(u, kw)  /\ Within(v, kh)
        \/ Near(-v, kh) /\ Within(u, kw)
        \/ Near(v, kh)  /\ Within(u, kw)

BodyHit(p, x, y) ==
    \/ CenterHit(p, x, y)
    \/ /\ p.shape \in {"circle", "blob"}
       /\ RingHit(p, x, y)
    \/ /\ p.shape = "square"
       /\ NearEdge(x - (p.x + pan[1]), y - (p.y + pan[2]), 1, 1, 1, p.radiusSq)
    \/ /\ p.shape = "rectangle"
       /\ NearEdge(x - (p.x + pan[1]), y - (p.y + pan[2]), 6, 3, 4, p.radiusSq)

(* The handle of a selected point that the cursor is on, focus first.      *)
HandleHit(p, x, y) ==
    IF FocusHit(p, x, y) THEN "focus"
    ELSE IF RadiusHit(p, x, y) THEN "radius"
    ELSE "none"

(* getHoveredElement with the loops in the wrong order: bodies first.      *)
getHoveredElementBodiesFirst(x, y) ==
    LET handles == {i \in 1..Len(points) :
                       /\ points[i].id = selectedPoint
                       /\ HandleHit(points[i], x, y) # "none"}
        bodies  == {i \in 1..Len(points) : BodyHit(points[i], x, y)}
    IN  IF bodies # {}
        THEN [type |-> "point", id |-> points[MinOf(bodies)].id]
        ELSE IF handles # {}
        THEN [type |-> HandleHit(points[MinOf(handles)], x, y),
              id   |-> points[MinOf(handles)].id]
        ELSE NoHit

(* The two loops of getHoveredElement, each returning at its first match.  *)
getHoveredElement(x, y) ==
    LET handles == {i \in 1..Len(points) :
                       /\ points[i].id = selectedPoint
                       /\ HandleHit(points[i], x, y) # "none"}
        bodies  == {i \in 1..Len(points) : BodyHit(points[i], x, y)}
    IN  IF handles # {}
        THEN [type |-> HandleHit(points[MinOf(handles)], x, y),
              id   |-> points[MinOf(handles)].id]
        ELSE IF bodies # {}
        THEN [type |-> "point", id |-> points[MinOf(bodies)].id]
        ELSE NoHit

(***************************************************************************)
(* Pointer handlers.                                                       *)
(***************************************************************************)
(* getCursorPosition(e) where canvasRef.current is null: the pointer       *)
(* position cannot be resolved.  The pos of a handler below is the value   *)
(* getCursorPosition returns, a position or this.                          *)
NoPosition == <<>>

AnyDrag ==
    draggingPoint # Null \/ draggingRadius # Null \/ draggingFocus # Null \/ isPanning

(* handleCanvasClick without the test of panJustEnded and dragJustEnded.   *)
handleCanvasClickIgnoresFlags(pos, shiftKey) ==
    IF AnyDrag \/ shiftKey
    THEN UNCHANGED state
    ELSE IF pos = NoPosition
    THEN UNCHANGED state
    ELSE LET hovered == getHoveredElement(pos[1], pos[2])
         IN  IF hovered.type = "point"
             THEN /\ selectedPoint' = hovered.id
                  /\ UNCHANGED <<points, histVars, now, dragVars, flagVars, panStart, pan>>
             ELSE IF hovered = NoHit
             THEN /\ \E t \in ClockReadings : addPoint(pos[1], pos[2], t)
                  /\ UNCHANGED <<dragVars, flagVars, panStart, pan>>
             ELSE UNCHANGED state

(* handleCanvasClick                                                       *)
handleCanvasClick(pos, shiftKey) ==
    IF AnyDrag \/ shiftKey \/ panJustEnded \/ dragJustEnded
    THEN UNCHANGED state
    ELSE IF pos = NoPosition
    THEN UNCHANGED state
    ELSE LET hovered == getHoveredElement(pos[1], pos[2])
         IN  IF hovered.type = "point"
             THEN /\ selectedPoint' = hovered.id
                  /\ UNCHANGED <<points, histVars, now, dragVars, flagVars, panStart, pan>>
             ELSE IF hovered = NoHit
             THEN /\ \E t \in ClockReadings : addPoint(pos[1], pos[2], t)
                  /\ UNCHANGED <<dragVars, flagVars, panStart, pan>>
             ELSE UNCHANGED state

(* handleMouseDown with the flags cleared before the position is tested.   *)
handleMouseDownClearsFlagsFirst(pos, shiftKey) ==
    /\ panJustEnded' = FALSE
    /\ dragJustEnded' = FALSE
    /\ UNCHANGED <<points, histVars, now, pan>>
    /\ IF pos = NoPosition
       THEN UNCHANGED <<dragVars, panStart, selectedPoint>>
       ELSE IF shiftKey
       THEN /\ isPanning' = TRUE
            /\ panStart' = <<pos[1] - pan[1], pos[2] - pan[2]>>
            /\ UNCHANGED <<draggingPoint, draggingRadius, draggingFocus, selectedPoint>>
       ELSE LET hovered == getHoveredElement(pos[1], pos[2])
            IN  /\ draggingPoint' =
                       IF hovered.type = "point" THEN hovered.id ELSE draggingPoint
                /\ selectedPoint' =
                       IF hovered.type = "point" THEN hovered.id ELSE selectedPoint
                /\ draggingRadius' =
                       IF hovered.type = "radius" THEN hovered.id ELSE draggingRadius
                /\ draggingFocus' =
                       IF hovered.type = "focus" THEN hovered.id ELSE draggingFocus
                /\ UNCHANGED <<isPanning, panStart>>

(* handleMouseDown                                                         *)
handleMouseDown(pos, shiftKey) ==
    IF pos = NoPosition
    THEN UNCHANGED state
    ELSE /\ panJustEnded' = FALSE
         /\ dragJustEnded' = FALSE
         /\ UNCHANGED <<points, histVars, now, pan>>
         /\ IF shiftKey
            THEN /\ isPanning' = TRUE
                 /\ panStart' = <<pos[1] - pan[1], pos[2] - pan[2]>>
                 /\ UNCHANGED <<draggingPoint, draggingRadius, draggingFocus,
                                selectedPoint>>
            ELSE LET hovered == getHoveredElement(pos[1], pos[2])
                 IN  /\ draggingPoint' =
                            IF hovered.type = "point" THEN hovered.id
                            ELSE draggingPoint
                     /\ selectedPoint' =
                            IF hovered.type = "point" THEN hovered.id
                            ELSE selectedPoint
                     /\ draggingRadius' =
                            IF hovered.type = "radius" THEN hovered.id
                            ELSE draggingRadius
                     /\ draggingFocus' =
                            IF hovered.type = "focus" THEN hovered.id
                            ELSE draggingFocus
                     /\ UNCHANGED <<isPanning, panStart>>

(* The radius of the resize drag without its Math.max(20, ...).            *)
UnclampedRadiusSq(point, pos) ==
    Sq(pos[1] - (point.x + pan[1])) + Sq(pos[2] - (point.y + pan[2]))

(* The radius the resize drag computes, as its square:                     *)
(* Math.max(20, Math.sqrt(dx ** 2 + dy ** 2)).                             *)
ClampedRadiusSq(point, pos) ==
    Max(Sq(20), Sq(pos[1] - (point.x + pan[1])) + Sq(pos[2] - (point.y + pan[2])))

(* The updates object of the radius branch of handleMouseMove.             *)
RadiusUpdates(point, pos) ==
    IF point.image # Undefined /\ point.shape = "square"
    THEN [ radiusSq |-> ClampedRadiusSq(point, pos),
           widthSq  |-> 4 * ClampedRadiusSq(point, pos),
           heightSq |-> 4 * ClampedRadiusSq(point, pos) ]
    ELSE [ radiusSq |-> ClampedRadiusSq(point, pos) ]

(* The updates object of the focus branch of handleMouseMove.              *)
FocusUpdates(point, pos) ==
    [ focusX |-> pos[1] - (point.x + pan[1]),
      focusY |-> pos[2] - (point.y + pan[2]) ]

(* handleMouseMove                                                         *)
handleMouseMove(pos) ==
    IF isPanning
    THEN /\ <<pos[1] - panStart[1], pos[2] - panStart[2]>> \in PanValues
         /\ pan' = <<pos[1] - panStart[1], pos[2] - panStart[2]>>
         /\ UNCHANGED points
    ELSE /\ UNCHANGED pan
         /\ IF draggingPoint # Null
            THEN updatePoint(draggingPoint,
                             [x |-> pos[1] - pan[1], y |-> pos[2] - pan[2]])
            ELSE IF draggingRadius # Null
            THEN IF Found(points, draggingRadius)
                 THEN updatePoint(draggingRadius,
                                  RadiusUpdates(Find(points, draggingRadius), pos))
                 ELSE UNCHANGED points
            ELSE IF draggingFocus # Null
            THEN IF Found(points, draggingFocus)
                 THEN updatePoint(draggingFocus,
                                  FocusUpdates(Find(points, draggingFocus), pos))
                 ELSE UNCHANGED points
            ELSE UNCHANGED points

(* handleCanvasMouseMove committing the list after every move of a drag.   *)
handleCanvasMouseMoveCommits(pos) ==
    /\ UNCHANGED <<selectedPoint, dragVars, flagVars, panStart, now>>
    /\ IF pos # NoPosition /\ AnyDrag
       THEN /\ handleMouseMove(pos)
            /\ saveToHistory(points')
       ELSE UNCHANGED <<points, pan, histVars>>

(* handleCanvasMouseMove: it returns where the position is not resolved,   *)
(* and with no drag active it only restyles the cursor.                    *)
handleCanvasMouseMove(pos) ==
    /\ UNCHANGED <<selectedPoint, dragVars, flagVars, panStart, histVars, now>>
    /\ IF pos # NoPosition /\ AnyDrag
       THEN handleMouseMove(pos)
       ELSE UNCHANGED <<points, pan>>

(* handleMouseUp without its setPanJustEnded(true).                        *)
handleMouseUpNoPanFlag ==
    /\ IF draggingPoint # Null \/ draggingRadius # Null \/ draggingFocus # Null
       THEN /\ saveToHistory(points)
            /\ dragJustEnded' = TRUE
       ELSE UNCHANGED <<histVars, dragJustEnded>>
    /\ panJustEnded' = panJustEnded
    /\ draggingPoint' = Null
    /\ draggingRadius' = Null
    /\ draggingFocus' = Null
    /\ isPanning' = FALSE
    /\ UNCHANGED <<points, selectedPoint, panStart, pan, now>>

(* handleMouseUp without its setDragJustEnded(true).                       *)
handleMouseUpNoDragFlag ==
    /\ IF draggingPoint # Null \/ draggingRadius # Null \/ draggingFocus # Null
       THEN /\ saveToHistory(points)
            /\ dragJustEnded' = dragJustEnded
       ELSE UNCHANGED <<histVars, dragJustEnded>>
    /\ panJustEnded' = IF isPanning THEN TRUE ELSE panJustEnded
    /\ draggingPoint' = Null
    /\ draggingRadius' = Null
    /\ draggingFocus' = Null
    /\ isPanning' = FALSE
    /\ UNCHANGED <<points, selectedPoint, panStart, pan, now>>

(* handleMouseUp without its saveToHistory(points).                        *)
handleMouseUpNoCommit ==
    /\ IF draggingPoint # Null \/ draggingRadius # Null \/ draggingFocus # Null
       THEN /\ UNCHANGED histVars
            /\ dragJustEnded' = TRUE
       ELSE UNCHANGED <<histVars, dragJustEnded>>
    /\ panJustEnded' = IF isPanning THEN TRUE ELSE panJustEnded
    /\ draggingPoint' = Null
    /\ draggingRadius' = Null
    /\ draggingFocus' = Null
    /\ isPanning' = FALSE
    /\ UNCHANGED <<points, selectedPoint, panStart, pan, now>>

(* handleMouseUp, bound to onMouseUp and to onMouseLeave.                  *)
handleMouseUp ==
    /\ IF draggingPoint # Null \/ draggingRadius # Null \/ draggingFocus # Null
       THEN /\ saveToHistory(points)
            /\ dragJustEnded' = TRUE
       ELSE UNCHANGED <<histVars, dragJustEnded>>
    /\ panJustEnded' = IF isPanning THEN TRUE ELSE panJustEnded
    /\ draggingPoint' = Null
    /\ draggingRadius' = Null
    /\ draggingFocus' = Null
    /\ isPanning' = FALSE
    /\ UNCHANGED <<points, selectedPoint, panStart, pan, now>>

(***************************************************************************)
(* Property panel: ColorPicker / ImageCircle onUpdate as wired by the      *)
(* canvas for the selected point (selectedPointData).                      *)
(***************************************************************************)
onUpdate(updates) ==
    /\ Found(points, selectedPoint)
    /\ updatePoint(selectedPoint, updates)
    /\ saveToHistory(UpdatedPoints(selectedPoint, updates))

(***************************************************************************)
(* Stop editors of the property panel: GradientEditor (in ColorPicker) and *)
(* GradientStopSlider (in ImageCircle), and the HEX input of ColorPicker.  *)
(*                                                                         *)
(* Both editors receive point.gradientStops as their prop stops and hand   *)
(* every new list to onChange, which the panel stores in the point; the    *)
(* variable stops is that field of the edited point, pointColor its color. *)
(* The editors are rendered for a point whose gradientType is linear or    *)
(* radial.                                                                 *)
(*                                                                         *)
(* A string of the editors is the sequence of its characters, so that the  *)
(* patterns the inputs are tested against and the conversions between hex  *)
(* strings and channels are computed character by character.  A position   *)
(* on the slider is a fraction: it is carried as its product with the      *)
(* width of the slider, which is an integer.                               *)
(***************************************************************************)
(* The null of selectedStopId and of the two draggingStopId.               *)
NoStop == "null"

(* alpha?: number while it is not set.                                     *)
NoAlpha == -1

(* The characters [0-9A-Fa-f], and the sixteen digits of toString(16).     *)
HexDigits ==
    <<"0", "1", "2", "3", "4", "5", "6", "7", "8", "9", "a", "b", "c", "d", "e", "f">>

UpperDigits ==
    <<"0", "1", "2", "3", "4", "5", "6", "7", "8", "9", "A", "B", "C", "D", "E", "F">>

HexChars == {HexDigits[i] : i \in 1..16} \cup {UpperDigits[i] : i \in 1..16}

(* parseInt(c, 16) of one character of HexChars.                           *)
DigitValue(c) ==
    (CHOOSE i \in 1..16 : HexDigits[i] = c \/ UpperDigits[i] = c) - 1

(* /^#[0-9A-F]{6}$/i                                                       *)
MatchesHex6(text) ==
    /\ Len(text) = 7
    /\ text[1] = "#"
    /\ \A i \in 2..7 : text[i] \in HexChars

(* /^#[0-9A-Fa-f]{0,6}$/                                                   *)
MatchesHexUpTo6(text) ==
    /\ Len(text) \in 1..7
    /\ text[1] = "#"
    /\ \A i \in 2..Len(text) : text[i] \in HexChars

(* hexToRgb: /^#?([a-f\d]{2})([a-f\d]{2})([a-f\d]{2})$/i, each group read  *)
(* by parseInt(.., 16); black where the pattern does not match.            *)
hexToRgb(hex) ==
    LET digits == IF Len(hex) >= 1 /\ hex[1] = "#" THEN Tail(hex) ELSE hex
    IN  IF Len(digits) = 6 /\ \A i \in 1..6 : digits[i] \in HexChars
        THEN [ r |-> 16 * DigitValue(digits[1]) + DigitValue(digits[2]),
               g |-> 16 * DigitValue(digits[3]) + DigitValue(digits[4]),
               b |-> 16 * DigitValue(digits[5]) + DigitValue(digits[6]) ]
        ELSE [r |-> 0, g |-> 0, b |-> 0]

(* x.toString(16) padded to two characters, for x in 0..255.               *)
ToHex2(x) ==
    IF x < 16
    THEN <<"0", HexDigits[x + 1]>>
    ELSE <<HexDigits[(x \div 16) + 1], HexDigits[(x % 16) + 1]>>

rgbToHex(r, g, b) == <<"#">> \o ToHex2(r) \o ToHex2(g) \o ToHex2(b)

(* Math.round of the fraction num / den, den > 0: floor(num / den + 1/2).  *)
Round(num, den) == (2 * num + den) \div (2 * den)

(* Math.max(0, Math.min(100, v))                                           *)
Clamp100(v) == IF v < 0 THEN 0 ELSE IF v > 100 THEN 100 ELSE v

(* sliderRef.current.getBoundingClientRect(): the slider is laid out 128   *)
(* pixels wide at the client origin.                                       *)
SliderRect == [left |-> 0, width |-> 128]

(* Math.max(0, Math.min(100, (x / rect.width) * 100)) with                 *)
(* x = clientX - rect.left, times rect.width.                              *)
SliderPosition(clientX) ==
    LET x == clientX - SliderRect.left
    IN  IF 100 * x < 0 THEN 0
        ELSE IF 100 * x > 100 * SliderRect.width THEN 100 * SliderRect.width
        ELSE 100 * x

(* Math.round(position) of a slider position.                              *)
RoundedPosition(clientX) == Round(SliderPosition(clientX), SliderRect.width)

(* [...stops].sort((a, b) => a.position - b.position): a stable sort.      *)
RECURSIVE SortByPosition(_)
SortByPosition(list) ==
    IF list = <<>> THEN <<>>
    ELSE LET first == Head(list)
             rest  == SortByPosition(Tail(list))
         IN  SelectSeq(rest, LAMBDA s : s.position < first.position)
             \o <<first>>
             \o SelectSeq(rest, LAMBDA s : s.position >= first.position)

sortedStops == SortByPosition(stops)

(* alpha || 100                                                            *)
OrHundred(alpha) == IF alpha = NoAlpha \/ alpha = 0 THEN 100 ELSE alpha

(* alpha !== undefined ? alpha : 100                                       *)
AlphaOf(stop) == IF stop.alpha = NoAlpha THEN 100 ELSE stop.alpha

(* interpolateColor over a sorted list, at the position scaled / width.    *)
(* The channels and the alpha of the interior case are                     *)
(* Math.round(before + (after - before) * relativePosition) with           *)
(* relativePosition = (position - before.position) / range, computed here  *)
(* as one fraction over range * width.                                     *)
interpolateColor(sorted, scaled) ==
    LET n         == Len(sorted)
        width     == SliderRect.width
        brackets  == {i \in 1..(n - 1) :
                         /\ scaled >= sorted[i].position * width
                         /\ scaled <= sorted[i + 1].position * width}
        first     == CHOOSE i \in brackets : \A j \in brackets : i <= j
        before    == IF brackets # {} THEN sorted[first] ELSE sorted[1]
        after     == IF brackets # {} THEN sorted[first + 1] ELSE sorted[n]
        range     == after.position - before.position
        Mix(a, b) == Round(a * range * width
                             + (b - a) * (scaled - before.position * width),
                           range * width)
        beforeRgb == hexToRgb(before.color)
        afterRgb  == hexToRgb(after.color)
    IN  IF n = 0
        THEN [color |-> <<"#", "3", "b", "8", "2", "f", "6">>, alpha |-> 100]
        ELSE IF n = 1
        THEN [color |-> sorted[1].color, alpha |-> OrHundred(sorted[1].alpha)]
        ELSE IF scaled <= sorted[1].position * width
        THEN [color |-> sorted[1].color, alpha |-> OrHundred(sorted[1].alpha)]
        ELSE IF scaled >= sorted[n].position * width
        THEN [color |-> sorted[n].color, alpha |-> OrHundred(sorted[n].alpha)]
        ELSE [color |-> rgbToHex(Mix(beforeRgb.r, afterRgb.r),
                                 Mix(beforeRgb.g, afterRgb.g),
                                 Mix(beforeRgb.b, afterRgb.b)),
              alpha |-> Mix(AlphaOf(before), AlphaOf(after))]

(* `stop-${Date.now()}` for the clock readings of the model.               *)
StopId(t) ==
    <<"stop-1", "stop-2", "stop-3", "stop-4", "stop-5", "stop-6", "stop-7",
      "stop-8", "stop-9", "stop-10", "stop-11", "stop-12">>[t]

(* onChange of both editors as wired by ColorPicker and ImageCircle: the   *)
(* new list becomes point.gradientStops, the prop of the next render.      *)
onChange(newStops) == stops' = newStops

(* stops.find(s => s.id === stopId), and whether there is one.             *)
HasStop(stopId) == \E i \in 1..Len(stops) : stops[i].id = stopId

(* selectedStop: GradientEditor renders nothing while it is undefined.     *)
EditorShown == HasStop(selectedStopId)

(* stops.map(stop => stop.id === stopId ? { ...stop, ...updates } : stop)  *)
StopsWith(stopId, updates) ==
    [i \in 1..Len(stops) |->
        IF stops[i].id = stopId THEN Merge(stops[i], updates) ELSE stops[i]]

(* stops.filter(stop => stop.id !== stopId)                                *)
StopsWithout(stopId) == SelectSeq(stops, LAMBDA s : s.id # stopId)

(* GradientEditor.handleSliderClick with the fixed color of               *)
(* GradientStopSlider in the place of the sampled one.                     *)
handleSliderClickFixedColor(clientX, t) ==
    IF draggingStopId # NoStop
    THEN UNCHANGED <<stops, selectedStopId, now>>
    ELSE /\ Len(stops) < MaxStops
         /\ now' = t
         /\ onChange(Append(stops,
                [ id       |-> StopId(t),
                  color    |-> <<"#", "3", "b", "8", "2", "f", "6">>,
                  position |-> RoundedPosition(clientX),
                  alpha    |-> 100 ]))
         /\ selectedStopId' = StopId(t)

(* GradientEditor.handleSliderClick                                        *)
handleSliderClick(clientX, t) ==
    IF draggingStopId # NoStop
    THEN UNCHANGED <<stops, selectedStopId, now>>
    ELSE /\ Len(stops) < MaxStops
         /\ now' = t
         /\ onChange(Append(stops,
                [ id       |-> StopId(t),
                  color    |-> interpolateColor(sortedStops,
                                                SliderPosition(clientX)).color,
                  position |-> RoundedPosition(clientX),
                  alpha    |-> interpolateColor(sortedStops,
                                                SliderPosition(clientX)).alpha ]))
         /\ selectedStopId' = StopId(t)

(* GradientEditor.handleStopDrag without its clamp to 0..100.              *)
handleStopDragUnclamped(clientX) ==
    IF draggingStopId = NoStop
    THEN UNCHANGED stops
    ELSE onChange(StopsWith(draggingStopId,
            [position |-> Round(100 * (clientX - SliderRect.left),
                                SliderRect.width)]))

(* GradientEditor.handleStopDrag                                           *)
handleStopDrag(clientX) ==
    IF draggingStopId = NoStop
    THEN UNCHANGED stops
    ELSE onChange(StopsWith(draggingStopId,
                            [position |-> RoundedPosition(clientX)]))

(* GradientEditor.handleStopDragEnd                                        *)
handleStopDragEnd == draggingStopId' = NoStop

(* GradientEditor.handleStopMouseDown                                      *)
handleStopMouseDown(stopId) ==
    /\ draggingStopId' = stopId
    /\ selectedStopId' = stopId

(* GradientEditor.handleRemoveStop                                         *)
handleRemoveStop(stopId) ==
    /\ onChange(StopsWithout(stopId))
    /\ selectedStopId' =
           IF selectedStopId = stopId
           THEN IF StopsWithout(stopId) # <<>>
                THEN StopsWithout(stopId)[1].id
                ELSE NoStop
           ELSE selectedStopId

(* GradientEditor.updateSelectedStopColor                                  *)
updateSelectedStopColor(color) ==
    IF selectedStopId = NoStop
    THEN UNCHANGED stops
    ELSE onChange(StopsWith(selectedStopId, [color |-> color]))

(* GradientEditor.handlePositionChange                                     *)
handlePositionChange(stopId, position) ==
    onChange(StopsWith(stopId, [position |-> Clamp100(position)]))

(* GradientStopSlider.handleSliderClick                                    *)
sliderHandleSliderClick(clientX, t) ==
    IF sliderDragging # NoStop
    THEN UNCHANGED <<stops, now>>
    ELSE /\ Len(stops) < MaxStops
         /\ now' = t
         /\ onChange(Append(stops,
                [ id       |-> StopId(t),
                  color    |-> <<"#", "3", "b", "8", "2", "f", "6">>,
                  position |-> RoundedPosition(clientX),
                  alpha    |-> NoAlpha ]))

(* GradientStopSlider.handleStopMouseDown.  The listeners of the drag are  *)
(* registered by a useState initializer, which runs once at mount while    *)
(* draggingStopId is null: no move reaches handleStopDrag and no release   *)
(* reaches handleStopDragEnd.                                              *)
sliderHandleStopMouseDown(stopId) == sliderDragging' = stopId

(* GradientStopSlider.handleRemoveStop                                     *)
sliderHandleRemoveStop(stopId) ==
    IF Len(stops) > 2
    THEN onChange(StopsWithout(stopId))
    ELSE UNCHANGED stops

(* GradientStopSlider.handleColorChange                                    *)
sliderHandleColorChange(stopId, color) ==
    onChange(StopsWith(stopId, [color |-> color]))

(* GradientStopSlider.handlePositionChange                                 *)
sliderHandlePositionChange(stopId, position) ==
    onChange(StopsWith(stopId, [position |-> Clamp100(position)]))

(* ColorPicker.handleHexChange; onUpdate({ color }) stores the color in    *)
(* the point.                                                              *)
handleHexChange(value) ==
    /\ hexInput' = value
    /\ IF MatchesHex6(value)
       THEN pointColor' = value
       ELSE UNCHANGED pointColor

(* The stops addPoint gives a point, and the same list after the colors    *)
(* and the alpha of both stops have been edited to black and white at 100. *)
DefaultStops ==
    << [ id |-> "stop-1", color |-> <<"#", "3", "b", "8", "2", "f", "6">>,
         position |-> 0, alpha |-> NoAlpha ],
       [ id |-> "stop-2", color |-> <<"#", "8", "b", "5", "c", "f", "6">>,
         position |-> 100, alpha |-> NoAlpha ] >>

RampStops ==
    << [ id |-> "stop-1", color |-> <<"#", "0", "0", "0", "0", "0", "0">>,
         position |-> 0, alpha |-> 100 ],
       [ id |-> "stop-2", color |-> <<"#", "f", "f", "f", "f", "f", "f">>,
         position |-> 100, alpha |-> 100 ] >>

(* The panel as it is mounted for a point that addPoint has created.       *)
EditorMounted ==
    /\ stops = DefaultStops
    /\ selectedStopId = "stop-1"
    /\ draggingStopId = NoStop
    /\ sliderDragging = NoStop
    /\ pointColor = <<"#", "3", "b", "8", "2", "f", "6">>
    /\ hexInput = <<"#", "3", "b", "8", "2", "f", "6">>

(***************************************************************************)
(* Images.  renderGradient draws a point's image only when the URL is a    *)
(* key of loadedImages; the image loading effect, which runs after every   *)
(* change of points, creates an Image for each point whose URL is not yet  *)
(* a key, and the onload callback of that Image adds the key.  There is no *)
(* onerror callback and nothing waits for a load.                          *)
(***************************************************************************)
(* The data URLs the file reader of ImageCircle delivers in the model.     *)
ImageUrls == {"data:image", "data:photo"}

(* point.image is set.                                                     *)
HasImage(point) == point.image # Undefined

(* The indices of the points of pts that reference url.                    *)
PointsWithImage(pts, url) == {i \in 1..Len(pts) : pts[i].image = url}

(* The image loading effect for the new value pts of points: one new       *)
(* Image() per point whose URL is not yet loaded; each starts decoding     *)
(* when its src is assigned.                                               *)
imageLoadingEffect(pts) ==
    decoding' = [url \in ImageUrls |->
                    decoding[url] + IF url \in loadedImages
                                    THEN 0
                                    ELSE Cardinality(PointsWithImage(pts, url))]

(* img.onload: setLoadedImages(prev => new Map(prev).set(point.image, img)) *)
onload(url) ==
    /\ decoding[url] > 0
    /\ decoding' = [decoding EXCEPT ![url] = decoding[url] - 1]
    /\ loadedImages' = loadedImages \cup {url}

(* renderGradient with its test of loadedImages left out of the image pass. *)
renderGradientDrawsUnloaded ==
    canvasPasses' =
        [ gradient |-> 1..Len(points),
          image    |-> {i \in 1..Len(points) : HasImage(points[i])} ]

(* renderGradient: the gradient pass runs for every point, the image pass  *)
(* for the points whose image is set and loaded.                           *)
renderGradient ==
    canvasPasses' =
        [ gradient |-> 1..Len(points),
          image    |-> {i \in 1..Len(points) :
                           /\ HasImage(points[i])
                           /\ points[i].image \in loadedImages} ]

(* The dependencies of renderGradient that the model varies.               *)
RenderDeps == <<points, selectedPoint, pan, loadedImages, draggingFocus>>

(* The canvas as it is mounted: nothing loaded, nothing decoding, and the  *)
(* first render has drawn the empty store.                                 *)
ImagesMounted ==
    /\ loadedImages = {}
    /\ decoding = [url \in ImageUrls |-> 0]
    /\ canvasPasses = [gradient |-> {}, image |-> {}]
    /\ renderDue = FALSE

(***************************************************************************)
(* The fill.  The gradient pass of renderGradient sets ctx.fillStyle for   *)
(* each point: one rgba color for a solid point, a canvas gradient with    *)
(* one color stop per gradient stop otherwise.  An alpha is kept in        *)
(* millionths: opacity, stop alpha and position are hundredths.            *)
(***************************************************************************)
(* The null that the hexToRgb of GradientCanvas and of ColorPicker return. *)
NoColor == [null |-> TRUE]

(* /^#?([a-f\d]{2})([a-f\d]{2})([a-f\d]{2})$/i                              *)
MatchesRgbPattern(hex) ==
    LET digits == IF Len(hex) >= 1 /\ hex[1] = "#" THEN Tail(hex) ELSE hex
    IN  Len(digits) = 6 /\ \A i \in 1..6 : digits[i] \in HexChars

(* hexToRgb of GradientCanvas.tsx: null where the pattern does not match.  *)
canvasHexToRgb(hex) ==
    LET digits == IF Len(hex) >= 1 /\ hex[1] = "#" THEN Tail(hex) ELSE hex
    IN  IF MatchesRgbPattern(hex)
        THEN [ r |-> 16 * DigitValue(digits[1]) + DigitValue(digits[2]),
               g |-> 16 * DigitValue(digits[3]) + DigitValue(digits[4]),
               b |-> 16 * DigitValue(digits[5]) + DigitValue(digits[6]) ]
        ELSE NoColor

(* hexToRgb of ColorPicker.tsx: the same pattern, parse and null.          *)
pickerHexToRgb(hex) ==
    LET digits == IF Len(hex) >= 1 /\ hex[1] = "#" THEN Tail(hex) ELSE hex
    IN  IF MatchesRgbPattern(hex)
        THEN [ r |-> 16 * DigitValue(digits[1]) + DigitValue(digits[2]),
               g |-> 16 * DigitValue(digits[3]) + DigitValue(digits[4]),
               b |-> 16 * DigitValue(digits[5]) + DigitValue(digits[6]) ]
        ELSE NoColor

(* point.gradientColors: stops.map(s => s.color), as onChange stores it    *)
(* together with the stops.                                                *)
GradientColors(stopList) == [i \in 1..Len(stopList) |-> stopList[i].color]

(* The opacity of a color stop at a position, in millionths:               *)
(*   soft:  point.opacity * stopAlpha * (1 - position)                     *)
(*   hard:  position < 0.8 ? point.opacity * stopAlpha                     *)
(*          : point.opacity * stopAlpha * (1 - (position - 0.8) / 0.2)     *)
StopOpacity(edge, pointOpacity, stopAlpha, position) ==
    IF edge = "soft"
    THEN pointOpacity * stopAlpha * (100 - position)
    ELSE IF position < 80
         THEN pointOpacity * stopAlpha * 100
         ELSE pointOpacity * stopAlpha * (100 - 5 * (position - 80))

(* gradient.addColorStop for each element of a list whose color parses.    *)
RECURSIVE AddColorStops(_)
AddColorStops(list) ==
    IF list = <<>> THEN <<>>
    ELSE IF canvasHexToRgb(Head(list).color) = NoColor
         THEN AddColorStops(Tail(list))
         ELSE << [ offset |-> Head(list).position,
                   rgb    |-> canvasHexToRgb(Head(list).color),
                   alpha  |-> Head(list).opacity ] >> \o AddColorStops(Tail(list))

(* The branch for gradientStops of two or more: the stops sorted by        *)
(* position, stopAlpha = alpha / 100 where alpha is defined, 1 otherwise.  *)
StopColorStops(edge, pointOpacity, stopList) ==
    LET sorted == SortByPosition(stopList)
    IN  AddColorStops(
            [i \in 1..Len(sorted) |->
                [ color    |-> sorted[i].color,
                  position |-> sorted[i].position,
                  opacity  |-> StopOpacity(edge, pointOpacity,
                                           AlphaOf(sorted[i]), sorted[i].position) ]])

(* The fallback branch: the colors evenly spaced, position i / (n - 1).    *)
(* colors is gradientColors when it has two entries or more, and twice     *)
(* the point color otherwise, which puts the positions at 0 and 1.         *)
FallbackColorStops(edge, pointOpacity, color, stopList) ==
    LET colors == IF Len(GradientColors(stopList)) >= 2
                  THEN GradientColors(stopList)
                  ELSE <<color, color>>
        n == Len(colors)
    IN  AddColorStops(
            [i \in 1..n |->
                [ color    |-> colors[i],
                  position |-> (100 * (i - 1)) \div (n - 1),
                  opacity  |-> StopOpacity(edge, pointOpacity, 100,
                                           (100 * (i - 1)) \div (n - 1)) ]])

(* ctx.fillStyle after the gradient pass for one point; previous is the    *)
(* style the context held before, which a solid point whose color does not *)
(* parse leaves in place.                                                  *)
FillStyleAfter(type, edge, pointOpacity, color, stopList, previous) ==
    IF type = "solid"
    THEN IF canvasHexToRgb(color) # NoColor
         THEN [ type  |-> "rgba",
                rgb   |-> canvasHexToRgb(color),
                alpha |-> pointOpacity * 10000 ]
         ELSE previous
    ELSE [ type       |-> type,
           colorStops |-> IF Len(stopList) >= 2
                          THEN StopColorStops(edge, pointOpacity, stopList)
                          ELSE FallbackColorStops(edge, pointOpacity, color, stopList) ]

(* ctx.fillStyle of a 2d context as the browser creates it.                *)
ContextDefault == [type |-> "color", value |-> "#000000"]

(* The panel as it is mounted for a point that addPoint has created, after *)
(* the render that follows the creation.                                   *)
FillMounted ==
    /\ gradientType = "solid"
    /\ edgeType = "soft"
    /\ opacity = 100
    /\ fillStyle = FillStyleAfter("solid", "soft", 100,
                                  <<"#", "3", "b", "8", "2", "f", "6">>,
                                  <<>>, ContextDefault)

(***************************************************************************)
(* The events.                                                             *)
(***************************************************************************)
Init ==
    /\ points = <<>>
    /\ selectedPoint = Null
    /\ draggingPoint = Null
    /\ draggingRadius = Null
    /\ draggingFocus = Null
    /\ isPanning = FALSE
    /\ panJustEnded = FALSE
    /\ dragJustEnded = FALSE
    /\ panStart = <<0, 0>>
    /\ pan = <<0, 0>>
    /\ history = <<>>
    /\ historyIndex = -1
    /\ now = 1
    /\ events = 0
    /\ EditorMounted
    /\ ImagesMounted
    /\ FillMounted

(* One more event is dispatched to the canvas component; the stop editors  *)
(* and the HEX input of the panel are not operated.                        *)
Event ==
    /\ events < MaxEvents
    /\ events' = events + 1
    /\ UNCHANGED <<editor, images, fill>>

(* What getCursorPosition returns for the pointer events of the model.     *)
PointerInputs == CursorPositions \cup {NoPosition}

Click ==
    /\ Event
    /\ \E pos \in PointerInputs, shiftKey \in BOOLEAN : handleCanvasClick(pos, shiftKey)

MouseDown ==
    /\ Event
    /\ \E pos \in PointerInputs, shiftKey \in BOOLEAN : handleMouseDown(pos, shiftKey)

MouseMove ==
    /\ Event
    /\ \E pos \in PointerInputs : handleCanvasMouseMove(pos)

MouseUp ==
    /\ Event
    /\ handleMouseUp

(* onMouseLeave bound to a handler that ends the drag without the commit.  *)
MouseLeaveNoCommit ==
    /\ Event
    /\ handleMouseUpNoCommit

MouseLeave ==
    /\ Event
    /\ handleMouseUp

(* Ctrl/Cmd+Z and the undo button.                                         *)
Undo ==
    /\ Event
    /\ undo
    /\ UNCHANGED <<selectedPoint, dragVars, flagVars, panStart, pan, now>>

(* Ctrl/Cmd+Shift+Z and the redo button.                                   *)
Redo ==
    /\ Event
    /\ redo
    /\ UNCHANGED <<selectedPoint, dragVars, flagVars, panStart, pan, now>>

(* The ids a list button or the context menu can pass: a listed point's,   *)
(* or the selected id.                                                     *)
OperableIds ==
    {points[i].id : i \in 1..Len(points)} \cup ({selectedPoint} \ {Null})

DuplicatePoint ==
    /\ Event
    /\ \E pointId \in OperableIds, t \in ClockReadings : duplicatePoint(pointId, t)
    /\ UNCHANGED <<dragVars, flagVars, panStart, pan>>

DeletePoint ==
    /\ Event
    /\ \E pointId \in OperableIds : deletePoint(pointId)
    /\ UNCHANGED <<dragVars, flagVars, panStart, pan, now>>

(* Click on a row of the point list.                                       *)
SelectFromList ==
    /\ Event
    /\ \E i \in 1..Len(points) : selectedPoint' = points[i].id
    /\ UNCHANGED <<points, histVars, dragVars, flagVars, panStart, pan, now>>

(* The "Influence Radius" slider (min 20, max 400, step 5).                *)
PanelRadius ==
    /\ Event
    /\ \E v \in PanelRadii : onUpdate([radiusSq |-> Sq(v)])
    /\ UNCHANGED <<selectedPoint, dragVars, flagVars, panStart, pan, now>>

(* The shape select.                                                       *)
PanelShape ==
    /\ Event
    /\ \E shape \in PanelShapes : onUpdate([shape |-> shape])
    /\ UNCHANGED <<selectedPoint, dragVars, flagVars, panStart, pan, now>>

(* ImageCircle: a file has been read and its data URL is stored.           *)
PanelImage ==
    /\ Event
    /\ onUpdate([image |-> "data:image"])
    /\ UNCHANGED <<selectedPoint, dragVars, flagVars, panStart, pan, now>>

(* The "Reset View" button.                                                *)
ResetView ==
    /\ Event
    /\ pan' = <<0, 0>>
    /\ UNCHANGED <<points, selectedPoint, histVars, dragVars, flagVars, panStart, now>>

Next ==
    \/ Click
    \/ MouseDown
    \/ MouseMove
    \/ MouseUp
    \/ MouseLeave
    \/ Undo
    \/ Redo
    \/ DuplicatePoint
    \/ DeletePoint
    \/ SelectFromList
    \/ PanelRadius
    \/ PanelShape
    \/ PanelImage
    \/ ResetView

Spec == Init /\ [][Next]_vars

(***************************************************************************)
(* The events of the stop editors and of the HEX input.                    *)
(***************************************************************************)
(* Pointer positions (clientX) of the clicks on the slider: 12.5 and 50    *)
(* percent of its width.                                                   *)
ClickXs == {16, 64}

(* Pointer positions of the moves of a stop drag: left of the slider and   *)
(* right of it.                                                            *)
DragXs == {-8, 160}

(* Values typed into a position input, after parseInt(..) || 0.            *)
PositionInputs == {-5, 30, 150}

(* Values typed into the alpha input, after parseInt(..) || 0.             *)
AlphaInputs == {0, 150}

(* Values of the alpha slider (0..100, step 1).                            *)
AlphaSliderValues == {50}

(* Texts a HEX input reports: a partial string, a color in capitals, and   *)
(* six digits without the leading "#".                                     *)
HexTexts ==
    { <<"#", "f", "f">>,
      <<"#", "F", "F", "0", "0", "0", "0">>,
      <<"0", "0", "8", "0", "0", "0">> }

(* The ids of the stops listed.                                            *)
StopIds == {stops[i].id : i \in 1..Len(stops)}

(* The panel is opened for a point with the default stops or with the      *)
(* black-to-white ramp, at a clock reading later than the numbers of the   *)
(* default stop ids.                                                       *)
InitEditor ==
    /\ points = <<>>
    /\ selectedPoint = Null
    /\ draggingPoint = Null
    /\ draggingRadius = Null
    /\ draggingFocus = Null
    /\ isPanning = FALSE
    /\ panJustEnded = FALSE
    /\ dragJustEnded = FALSE
    /\ panStart = <<0, 0>>
    /\ pan = <<0, 0>>
    /\ history = <<>>
    /\ historyIndex = -1
    /\ now = 3
    /\ events = 0
    /\ stops \in {DefaultStops, RampStops}
    /\ selectedStopId = "stop-1"
    /\ draggingStopId = NoStop
    /\ sliderDragging = NoStop
    /\ pointColor = <<"#", "3", "b", "8", "2", "f", "6">>
    /\ hexInput = <<"#", "3", "b", "8", "2", "f", "6">>
    /\ ImagesMounted
    /\ gradientType = "linear"
    /\ edgeType = "soft"
    /\ opacity = 100
    /\ fillStyle = FillStyleAfter("linear", "soft", 100, pointColor, stops,
                                  ContextDefault)

(* One more event is dispatched to the panel; the canvas is not touched.   *)
EditorEvent ==
    /\ events < MaxEdits
    /\ events' = events + 1
    /\ UNCHANGED <<points, selectedPoint, dragVars, flagVars, panStart, pan,
                   histVars, images, fill>>

(* Click on the track of the slider of GradientEditor.                     *)
SliderClick ==
    /\ EditorEvent
    /\ EditorShown
    /\ \E clientX \in ClickXs, t \in ClockReadings : handleSliderClick(clientX, t)
    /\ UNCHANGED <<draggingStopId, sliderDragging, pointColor, hexInput>>

(* Pointer-down on a stop handle of GradientEditor.                        *)
StopMouseDown ==
    /\ EditorEvent
    /\ EditorShown
    /\ \E stopId \in StopIds : handleStopMouseDown(stopId)
    /\ UNCHANGED <<stops, sliderDragging, pointColor, hexInput, now>>

(* mousemove on window while a stop of GradientEditor is dragged.          *)
StopDrag ==
    /\ EditorEvent
    /\ draggingStopId # NoStop
    /\ \E clientX \in DragXs : handleStopDrag(clientX)
    /\ UNCHANGED <<selectedStopId, draggingStopId, sliderDragging, pointColor,
                   hexInput, now>>

(* mouseup on window while a stop of GradientEditor is dragged.            *)
StopDragEnd ==
    /\ EditorEvent
    /\ draggingStopId # NoStop
    /\ handleStopDragEnd
    /\ UNCHANGED <<stops, selectedStopId, sliderDragging, pointColor, hexInput, now>>

(* The remove button of a row of the stops list of GradientEditor.         *)
RemoveStop ==
    /\ EditorEvent
    /\ EditorShown
    /\ \E stopId \in StopIds : handleRemoveStop(stopId)
    /\ UNCHANGED <<draggingStopId, sliderDragging, pointColor, hexInput, now>>

(* Delete or Backspace pressed anywhere in the window while GradientEditor *)
(* is mounted and a stop id is selected.                                   *)
RemoveKey ==
    /\ EditorEvent
    /\ selectedStopId # NoStop
    /\ handleRemoveStop(selectedStopId)
    /\ UNCHANGED <<draggingStopId, sliderDragging, pointColor, hexInput, now>>

(* The HEX input of the selected stop of GradientEditor.                   *)
SelectedStopHex ==
    /\ EditorEvent
    /\ EditorShown
    /\ \E hex \in HexTexts :
          IF MatchesHexUpTo6(hex)
          THEN updateSelectedStopColor(hex)
          ELSE UNCHANGED stops
    /\ UNCHANGED <<selectedStopId, draggingStopId, sliderDragging, pointColor,
                   hexInput, now>>

(* The HEX input of a row of the stops list of GradientEditor.             *)
ListStopHex ==
    /\ EditorEvent
    /\ EditorShown
    /\ \E stopId \in StopIds, hex \in HexTexts :
          IF MatchesHexUpTo6(hex)
          THEN onChange(StopsWith(stopId, [color |-> hex]))
          ELSE UNCHANGED stops
    /\ UNCHANGED <<selectedStopId, draggingStopId, sliderDragging, pointColor,
                   hexInput, now>>

(* The position input of a row of the stops list of GradientEditor.        *)
ListStopPosition ==
    /\ EditorEvent
    /\ EditorShown
    /\ \E stopId \in StopIds, position \in PositionInputs :
          handlePositionChange(stopId, position)
    /\ UNCHANGED <<selectedStopId, draggingStopId, sliderDragging, pointColor,
                   hexInput, now>>

(* The alpha input of the selected stop of GradientEditor.                 *)
AlphaInput ==
    /\ EditorEvent
    /\ EditorShown
    /\ \E value \in AlphaInputs :
          onChange(StopsWith(selectedStopId, [alpha |-> Clamp100(value)]))
    /\ UNCHANGED <<selectedStopId, draggingStopId, sliderDragging, pointColor,
                   hexInput, now>>

(* The alpha slider of the selected stop of GradientEditor.                *)
AlphaSlider ==
    /\ EditorEvent
    /\ EditorShown
    /\ \E alpha \in AlphaSliderValues :
          onChange(StopsWith(selectedStopId, [alpha |-> alpha]))
    /\ UNCHANGED <<selectedStopId, draggingStopId, sliderDragging, pointColor,
                   hexInput, now>>

(* The "+ Add Stop" button of GradientEditor.                              *)
AddStop ==
    /\ EditorEvent
    /\ EditorShown
    /\ Len(stops) < MaxStops
    /\ \E t \in ClockReadings :
          /\ now' = t
          /\ onChange(Append(stops,
                 [ id       |-> StopId(t),
                   color    |-> <<"#", "e", "c", "4", "8", "9", "9">>,
                   position |-> 50,
                   alpha    |-> 100 ]))
          /\ selectedStopId' = StopId(t)
    /\ UNCHANGED <<draggingStopId, sliderDragging, pointColor, hexInput>>

(* Click on a row of the stops list of GradientEditor.                     *)
SelectStop ==
    /\ EditorEvent
    /\ EditorShown
    /\ \E stopId \in StopIds : selectedStopId' = stopId
    /\ UNCHANGED <<stops, draggingStopId, sliderDragging, pointColor, hexInput, now>>

(* Click on the track of the slider of GradientStopSlider.                 *)
BorderSliderClick ==
    /\ EditorEvent
    /\ \E clientX \in ClickXs, t \in ClockReadings :
          sliderHandleSliderClick(clientX, t)
    /\ UNCHANGED <<selectedStopId, draggingStopId, sliderDragging, pointColor,
                   hexInput>>

(* Pointer-down on a stop handle of GradientStopSlider.                    *)
BorderStopMouseDown ==
    /\ EditorEvent
    /\ \E stopId \in StopIds : sliderHandleStopMouseDown(stopId)
    /\ UNCHANGED <<stops, selectedStopId, draggingStopId, pointColor, hexInput, now>>

(* The remove button of a row of GradientStopSlider, rendered while there  *)
(* are more than two stops.                                                *)
BorderRemoveStop ==
    /\ EditorEvent
    /\ Len(stops) > 2
    /\ \E stopId \in StopIds : sliderHandleRemoveStop(stopId)
    /\ UNCHANGED <<selectedStopId, draggingStopId, sliderDragging, pointColor,
                   hexInput, now>>

(* The color input of a row of GradientStopSlider.                         *)
BorderStopColor ==
    /\ EditorEvent
    /\ \E stopId \in StopIds, color \in HexTexts :
          sliderHandleColorChange(stopId, color)
    /\ UNCHANGED <<selectedStopId, draggingStopId, sliderDragging, pointColor,
                   hexInput, now>>

(* The position input of a row of GradientStopSlider.                      *)
BorderStopPosition ==
    /\ EditorEvent
    /\ \E stopId \in StopIds, position \in PositionInputs :
          sliderHandlePositionChange(stopId, position)
    /\ UNCHANGED <<selectedStopId, draggingStopId, sliderDragging, pointColor,
                   hexInput, now>>

(* The "Add Stop" button of GradientStopSlider.                            *)
BorderAddStop ==
    /\ EditorEvent
    /\ Len(stops) < MaxStops
    /\ \E t \in ClockReadings :
          /\ now' = t
          /\ onChange(Append(stops,
                 [ id       |-> StopId(t),
                   color    |-> <<"#", "e", "c", "4", "8", "9", "9">>,
                   position |-> 50,
                   alpha    |-> NoAlpha ]))
    /\ UNCHANGED <<selectedStopId, draggingStopId, sliderDragging, pointColor,
                   hexInput>>

(* The HEX input of the point color of ColorPicker.                        *)
PointHex ==
    /\ EditorEvent
    /\ \E value \in HexTexts : handleHexChange(value)
    /\ UNCHANGED <<stops, selectedStopId, draggingStopId, sliderDragging, now>>

NextEditor ==
    \/ SliderClick
    \/ StopMouseDown
    \/ StopDrag
    \/ StopDragEnd
    \/ RemoveStop
    \/ RemoveKey
    \/ SelectedStopHex
    \/ ListStopHex
    \/ ListStopPosition
    \/ AlphaInput
    \/ AlphaSlider
    \/ AddStop
    \/ SelectStop
    \/ BorderSliderClick
    \/ BorderStopMouseDown
    \/ BorderRemoveStop
    \/ BorderStopColor
    \/ BorderStopPosition
    \/ BorderAddStop
    \/ PointHex

SpecEditor == InitEditor /\ [][NextEditor]_vars

(***************************************************************************)
(* The events of the image cache.  An event handler is followed by the     *)
(* commit of its state changes; the image loading effect runs in that      *)
(* commit when the handler has called setPoints.  The renderGradient       *)
(* effect and the onload callbacks are tasks of their own: the browser     *)
(* runs them between events, in any order.                                 *)
(***************************************************************************)
(* One more event is dispatched to the canvas or to the image panel.       *)
ImageEvent ==
    /\ events < MaxImageEvents
    /\ events' = events + 1
    /\ UNCHANGED <<editor, fill, loadedImages, canvasPasses>>

(* The commit after a handler: useEffect(.., [points]) starts the loads,   *)
(* and useEffect(.., [renderGradient]) is due when a dependency changed.   *)
Commit(setPointsCalled) ==
    /\ IF setPointsCalled
       THEN imageLoadingEffect(points')
       ELSE UNCHANGED decoding
    /\ renderDue' = (renderDue \/ setPointsCalled \/ RenderDeps' # RenderDeps)

(* The cursor position of the clicks on the canvas.                        *)
ImageClickPositions == {<<100, 100>>}

(* Click on the canvas: creates a point on empty canvas, selects a point   *)
(* under the cursor.                                                       *)
ImageClick ==
    /\ ImageEvent
    /\ \E pos \in ImageClickPositions : handleCanvasClick(pos, FALSE)
    /\ Commit(points' # points)

(* ImageCircle.handleFileChange: the file reader has delivered a data URL. *)
ImageUpload ==
    /\ ImageEvent
    /\ \E url \in ImageUrls : onUpdate([image |-> url])
    /\ UNCHANGED <<selectedPoint, dragVars, flagVars, panStart, pan, now>>
    /\ Commit(TRUE)

(* ImageCircle.handleRemoveImage, offered while an image is shown.         *)
ImageRemove ==
    /\ ImageEvent
    /\ Found(points, selectedPoint)
    /\ HasImage(Find(points, selectedPoint))
    /\ onUpdate([image |-> Undefined])
    /\ UNCHANGED <<selectedPoint, dragVars, flagVars, panStart, pan, now>>
    /\ Commit(TRUE)

(* Duplicate from the list or the context menu: the copy shares the URL.   *)
ImageDuplicate ==
    /\ ImageEvent
    /\ \E pointId \in OperableIds, t \in ClockReadings : duplicatePoint(pointId, t)
    /\ UNCHANGED <<dragVars, flagVars, panStart, pan>>
    /\ Commit(points' # points)

(* Delete from the list or the context menu.                               *)
ImageDelete ==
    /\ ImageEvent
    /\ \E pointId \in OperableIds : deletePoint(pointId)
    /\ UNCHANGED <<dragVars, flagVars, panStart, pan, now>>
    /\ Commit(TRUE)

(* Undo: an earlier snapshot, with the images it references, is restored.  *)
ImageUndo ==
    /\ ImageEvent
    /\ undo
    /\ UNCHANGED <<selectedPoint, dragVars, flagVars, panStart, pan, now>>
    /\ Commit(historyIndex > 0)

(* The browser has decoded an image and calls its onload; the new Map is   *)
(* a new dependency of renderGradient.                                     *)
LoadCompletes ==
    /\ \E url \in ImageUrls : onload(url)
    /\ renderDue' = TRUE
    /\ UNCHANGED <<state, editor, fill, canvasPasses, events>>

(* useEffect(() => { renderGradient(); }, [renderGradient])               *)
Render ==
    /\ renderDue
    /\ renderGradient
    /\ renderDue' = FALSE
    /\ UNCHANGED <<state, editor, fill, loadedImages, decoding, events>>

NextImages ==
    \/ ImageClick
    \/ ImageUpload
    \/ ImageRemove
    \/ ImageDuplicate
    \/ ImageDelete
    \/ ImageUndo
    \/ LoadCompletes
    \/ Render

SpecImages == Init /\ [][NextImages]_vars

(* React runs a due effect: the render is never postponed for ever.  No    *)
(* such assumption is made on the decoding of an image.                    *)
FairSpecImages == SpecImages /\ WF_vars(Render)

(***************************************************************************)
(* The events of the fill: the panel edits of the fields the gradient pass *)
(* reads.  Each is followed by the commit of its update and by the         *)
(* renderGradient effect, which React runs before it dispatches the next   *)
(* event.                                                                  *)
(***************************************************************************)
(* Values of the opacity slider (0..100, step 1; onUpdate stores v / 100). *)
OpacityValues == {0, 50}

(* The gradient types the panel offers: the select of ColorPicker is       *)
(* rendered for a solid point, the buttons of GradientEditor otherwise.    *)
OfferedTypes ==
    IF gradientType = "solid" THEN {"solid", "linear", "radial"}
    ELSE {"linear", "radial"}

(* One more event is dispatched to the panel.                              *)
FillEvent ==
    /\ events < MaxEdits
    /\ events' = events + 1
    /\ UNCHANGED <<points, selectedPoint, dragVars, flagVars, panStart, pan,
                   histVars, now, images>>

(* renderGradient after the commit of an update.                           *)
Repaint ==
    fillStyle' = FillStyleAfter(gradientType', edgeType', opacity', pointColor',
                                stops', fillStyle)

(* The gradient type select, or a type button of GradientEditor.           *)
PanelGradientType ==
    /\ FillEvent
    /\ \E type \in OfferedTypes : gradientType' = type
    /\ UNCHANGED <<editor, edgeType, opacity>>
    /\ Repaint

(* The edge type radio group.                                              *)
PanelEdgeType ==
    /\ FillEvent
    /\ \E value \in {"soft", "hard"} : edgeType' = value
    /\ UNCHANGED <<editor, gradientType, opacity>>
    /\ Repaint

(* The opacity slider.                                                     *)
PanelOpacity ==
    /\ FillEvent
    /\ \E v \in OpacityValues : opacity' = v
    /\ UNCHANGED <<editor, gradientType, edgeType>>
    /\ Repaint

(* The HEX input of the point color.                                       *)
PanelHex ==
    /\ FillEvent
    /\ \E value \in HexTexts : handleHexChange(value)
    /\ UNCHANGED <<stops, selectedStopId, draggingStopId, sliderDragging,
                   gradientType, edgeType, opacity>>
    /\ Repaint

(* The HEX input of the selected stop of GradientEditor.                   *)
PanelStopHex ==
    /\ FillEvent
    /\ gradientType # "solid"
    /\ EditorShown
    /\ \E hex \in HexTexts :
          IF MatchesHexUpTo6(hex)
          THEN updateSelectedStopColor(hex)
          ELSE UNCHANGED stops
    /\ UNCHANGED <<selectedStopId, draggingStopId, sliderDragging, pointColor,
                   hexInput, gradientType, edgeType, opacity>>
    /\ Repaint

(* The position input of a row of the stops list of GradientEditor.        *)
PanelStopPosition ==
    /\ FillEvent
    /\ gradientType # "solid"
    /\ EditorShown
    /\ \E stopId \in StopIds, position \in PositionInputs :
          handlePositionChange(stopId, position)
    /\ UNCHANGED <<selectedStopId, draggingStopId, sliderDragging, pointColor,
                   hexInput, gradientType, edgeType, opacity>>
    /\ Repaint

(* The alpha input of the selected stop of GradientEditor.                 *)
PanelStopAlpha ==
    /\ FillEvent
    /\ gradientType # "solid"
    /\ EditorShown
    /\ \E value \in AlphaInputs \cup AlphaSliderValues :
          onChange(StopsWith(selectedStopId, [alpha |-> Clamp100(value)]))
    /\ UNCHANGED <<selectedStopId, draggingStopId, sliderDragging, pointColor,
                   hexInput, gradientType, edgeType, opacity>>
    /\ Repaint

(* The remove button of a row of the stops list of GradientEditor.         *)
PanelRemoveStop ==
    /\ FillEvent
    /\ gradientType # "solid"
    /\ EditorShown
    /\ \E stopId \in StopIds : handleRemoveStop(stopId)
    /\ UNCHANGED <<draggingStopId, sliderDragging, pointColor, hexInput,
                   gradientType, edgeType, opacity>>
    /\ Repaint

NextFill ==
    \/ PanelGradientType
    \/ PanelEdgeType
    \/ PanelOpacity
    \/ PanelHex
    \/ PanelStopHex
    \/ PanelStopPosition
    \/ PanelStopAlpha
    \/ PanelRemoveStop

SpecFill == Init /\ [][NextFill]_vars

(***************************************************************************)
(* Properties of the history manager.                                      *)
(***************************************************************************)
DragActive ==
    draggingPoint # Null \/ draggingRadius # Null \/ draggingFocus # Null

(* The steps in which a handler calls saveToHistory: the end of a move,    *)
(* radius or focus drag, the creation, duplication or deletion of a point, *)
(* and an edit from the property panel.                                    *)
CommitStep ==
    \/ MouseUp /\ DragActive
    \/ MouseLeave /\ DragActive
    \/ Click /\ Len(points') = Len(points) + 1
    \/ DuplicatePoint /\ Len(points') = Len(points) + 1
    \/ DeletePoint
    \/ PanelRadius
    \/ PanelShape
    \/ PanelImage

(* The entries up to and including the cursor are the same before and      *)
(* after the step.                                                         *)
PrefixKept ==
    /\ Len(history') >= historyIndex + 1
    /\ \A i \in 1..(historyIndex + 1) : history'[i] = history[i]

(* C1: a commit discards every entry after the cursor, appends a copy of   *)
(* the committed snapshot (the point list the step leaves) and moves the   *)
(* cursor to the new last index; the entries up to the old cursor are      *)
(* unchanged.                                                              *)
C1_Commit ==
    [][CommitStep =>
          /\ Len(history') = historyIndex + 2
          /\ historyIndex' = Len(history') - 1
          /\ history'[Len(history')] = points'
          /\ PrefixKept]_vars

(* C1 witness: the cursor is behind the last entry (a redo branch exists)  *)
(* and a commit is taken from here.                                        *)
C1_Witness ==
    /\ historyIndex >= 0
    /\ historyIndex < Len(history) - 1
    /\ ENABLED CommitStep

(* C2: undo changes nothing when the cursor is <= 0; otherwise it moves    *)
(* the cursor back by one and replaces the live list by the entry at the   *)
(* new cursor, leaving the entries alone.                                  *)
C2_Undo ==
    [][Undo =>
          IF historyIndex <= 0
          THEN UNCHANGED <<historyIndex, history, points>>
          ELSE /\ historyIndex' = historyIndex - 1
               /\ points' = history[historyIndex' + 1]
               /\ history' = history]_vars

(* C2 witness: an undo has stepped back to the first entry, and the live   *)
(* list differs from the entry the cursor left.                            *)
C2_Witness ==
    /\ Len(history) >= 2
    /\ historyIndex = 0
    /\ points = history[1]
    /\ points # history[2]

(* C3: redo changes nothing when the cursor is at the last entry or the    *)
(* history is empty; otherwise it moves the cursor forward by one and      *)
(* replaces the live list by the entry at the new cursor.                  *)
C3_Redo ==
    [][Redo =>
          IF historyIndex >= Len(history) - 1
          THEN UNCHANGED <<historyIndex, history, points>>
          ELSE /\ historyIndex' = historyIndex + 1
               /\ points' = history[historyIndex' + 1]
               /\ history' = history]_vars

(* C3 witness: the cursor is behind the last entry, the live list is not   *)
(* the next entry, and redo is taken from here.                            *)
C3_Witness ==
    /\ historyIndex >= 0
    /\ historyIndex < Len(history) - 1
    /\ points # history[historyIndex + 2]
    /\ ENABLED Redo

(* C4: after commit(S1); commit(S2) the cursor is on the last entry and    *)
(* S1 is the entry before it: an undo taken there restores exactly that    *)
(* entry.  A commit taken right after that undo puts its snapshot in the   *)
(* place of S2 and leaves the cursor on the last entry, where redo changes *)
(* nothing.                                                                *)
C4_UndoThenCommitDropsRedo ==
    [][/\ (Undo /\ Len(history) >= 2 /\ historyIndex = Len(history) - 1)
            => /\ points' = history[Len(history) - 1]
               /\ historyIndex' = Len(history) - 2
               /\ history' = history
       /\ (CommitStep /\ Len(history) >= 2 /\ historyIndex = Len(history) - 2)
            => /\ Len(history') = Len(history)
               /\ history'[Len(history')] = points'
               /\ \A i \in 1..(Len(history) - 1) : history'[i] = history[i]
               /\ historyIndex' = Len(history') - 1
       /\ (Redo /\ historyIndex = Len(history) - 1)
            => UNCHANGED <<points, history, historyIndex>>]_vars

(* C4 witness: three points were created with an undo before the third     *)
(* (ids 1 and 3 are live, the entry that held id 2 is gone), the history   *)
(* is [S1, S3] with the cursor on S3, and redo is taken from here.         *)
C4_Witness ==
    /\ Len(history) = 2
    /\ historyIndex = 1
    /\ Len(points) = 2
    /\ points[1].id = 1
    /\ points[2].id = 3
    /\ history[1] = <<points[1]>>
    /\ history[2] = points
    /\ ENABLED Redo

(* Every entry of the history is still there, unchanged, after the step.   *)
EntriesKept ==
    /\ Len(history') >= Len(history)
    /\ \A i \in 1..Len(history) : history'[i] = history[i]

(* C5: undo and redo leave the entries alone, and so does every pointer    *)
(* move that mutates the live list; a step that loses or changes an entry  *)
(* is a commit, and it keeps the entries up to the cursor.                 *)
C5_EntriesImmutable ==
    [][/\ (Undo \/ Redo) => history' = history
       /\ MouseMove => history' = history
       /\ EntriesKept \/ (CommitStep /\ PrefixKept)]_vars

(* C5 witness: a drag has changed the live list after the last commit, so  *)
(* the live list differs from the entry under the cursor.                  *)
C5_Witness ==
    /\ DragActive
    /\ historyIndex >= 0
    /\ historyIndex = Len(history) - 1
    /\ points # history[historyIndex + 1]

(***************************************************************************)
(* Properties of the drag state machine and of the hit-test.               *)
(***************************************************************************)
ActiveModes ==
    {m \in {"MovingPoint", "ResizingRadius", "RedirectingFocus", "Panning"} :
        \/ m = "MovingPoint" /\ draggingPoint # Null
        \/ m = "ResizingRadius" /\ draggingRadius # Null
        \/ m = "RedirectingFocus" /\ draggingFocus # Null
        \/ m = "Panning" /\ isPanning}

(* C6: at most one of the four drag modes is active.                       *)
C6_OneDragMode == Cardinality(ActiveModes) <= 1

(* Cursor positions at which the hit-test is examined in every state: the  *)
(* positions of the events, and positions on and just off the rims of the  *)
(* hit areas around them.                                                  *)
ProbePositions ==
    CursorPositions \cup
    { <<112, 100>>, <<113, 100>>, <<100, 114>>, <<100, 115>>,
      <<258, 100>>, <<259, 100>> }

(* The point the component treats as the selected one:                     *)
(* points.find(p => p.id === selectedPoint).                               *)
HasSelected == Found(points, selectedPoint)

Selected == Find(points, selectedPoint)

(* C7: at every cursor position the focus handle of the selected point     *)
(* wins, then its radius handle, also where the position lies on the body  *)
(* of a point; a body is returned only where neither handle is hit, and    *)
(* it is the body of a point that matches; empty canvas is returned only   *)
(* where no body matches.                                                  *)
C7_HitPriority ==
    \A pos \in ProbePositions :
        LET hovered == getHoveredElement(pos[1], pos[2])
            onFocus == HasSelected /\ FocusHit(Selected, pos[1], pos[2])
            onRadius == HasSelected /\ RadiusHit(Selected, pos[1], pos[2])
        IN  /\ onFocus => hovered = [type |-> "focus", id |-> selectedPoint]
            /\ (~onFocus /\ onRadius)
                   => hovered = [type |-> "radius", id |-> selectedPoint]
            /\ hovered.type = "point"
                   => /\ ~onFocus /\ ~onRadius
                      /\ \E i \in 1..Len(points) :
                            /\ points[i].id = hovered.id
                            /\ BodyHit(points[i], pos[1], pos[2])
            /\ hovered = NoHit
                   => \A i \in 1..Len(points) : ~BodyHit(points[i], pos[1], pos[2])

(* C7 witness: the radius handle of the selected point lies on the body of *)
(* another point, and the hit-test returns the handle.                     *)
C7_Witness ==
    \E pos \in ProbePositions :
        /\ HasSelected
        /\ ~FocusHit(Selected, pos[1], pos[2])
        /\ RadiusHit(Selected, pos[1], pos[2])
        /\ \E i \in 1..Len(points) :
              /\ points[i].id # selectedPoint
              /\ BodyHit(points[i], pos[1], pos[2])
        /\ getHoveredElement(pos[1], pos[2]).type = "radius"

(* C8: every point of the store has a radius of at least 20.               *)
C8_RadiusAtLeast20 ==
    \A i \in 1..Len(points) : points[i].radiusSq >= Sq(20)

(* C8 witness: a resize drag with the pointer closer than 20 to the centre *)
(* of the point has set the radius to 20; the entry under the cursor still *)
(* holds the radius from before the drag.                                  *)
C8_Witness ==
    /\ draggingRadius # Null
    /\ Found(points, draggingRadius)
    /\ Find(points, draggingRadius).radiusSq = Sq(20)
    /\ historyIndex >= 0
    /\ Found(history[historyIndex + 1], draggingRadius)
    /\ Find(history[historyIndex + 1], draggingRadius).radiusSq > Sq(20)

(* The commit of the live list as it stands: the entries after the cursor  *)
(* go, a snapshot equal to the list is appended, the cursor is on it.      *)
CommitsLiveList ==
    /\ Len(history') = historyIndex + 2
    /\ history'[Len(history')] = points
    /\ historyIndex' = Len(history') - 1
    /\ PrefixKept
    /\ points' = points

(* C9: while the radius handle of a point is dragged every pointer move    *)
(* sets the point's radius to max(20, distance from its centre on screen   *)
(* to the pointer), and width and height to twice that radius where the    *)
(* point has an image and the shape "square"; the release commits.         *)
C9_ResizeDrag ==
    [][/\ \A pos \in CursorPositions :
            ( /\ Event
              /\ handleCanvasMouseMove(pos)
              /\ draggingRadius # Null
              /\ Found(points, draggingRadius) )
            => /\ Found(points', draggingRadius)
               /\ LET before == Find(points, draggingRadius)
                      after  == Find(points', draggingRadius)
                      distSq == Sq(pos[1] - (before.x + pan[1]))
                                + Sq(pos[2] - (before.y + pan[2]))
                  IN  /\ after.radiusSq = Max(Sq(20), distSq)
                      /\ (after.image # Undefined /\ after.shape = "square")
                            => /\ after.widthSq = 4 * after.radiusSq
                               /\ after.heightSq = 4 * after.radiusSq
       /\ (MouseUp /\ draggingRadius # Null)
            => CommitsLiveList /\ draggingRadius' = Null]_vars

ClickAt(pos, shiftKey) ==
    /\ Event
    /\ UNCHANGED <<dragVars, flagVars, panStart, pan>>
    /\ handleCanvasClick(pos, shiftKey)

(* C11: a click on a point body without a drag only selects the point.     *)
(* The pointer-down on the body selects it and leaves list and history;    *)
(* the pointer-up of a move drag that has not moved anything since the     *)
(* last commit (the live list is the entry under the cursor) leaves list,  *)
(* history and cursor as they are; the click that follows changes nothing. *)
C11_ClickSelectsOnly ==
    [][/\ \A pos \in CursorPositions :
            ( /\ Event
              /\ handleMouseDown(pos, FALSE)
              /\ ~AnyDrag
              /\ getHoveredElement(pos[1], pos[2]).type = "point" )
            => /\ selectedPoint' = getHoveredElement(pos[1], pos[2]).id
               /\ UNCHANGED <<points, histVars>>
       /\ ( /\ MouseUp
            /\ ActiveModes = {"MovingPoint"}
            /\ historyIndex >= 0
            /\ points = history[historyIndex + 1] )
            => UNCHANGED <<points, histVars, selectedPoint>>
       /\ \A pos \in CursorPositions :
            (dragJustEnded /\ ~AnyDrag /\ ClickAt(pos, FALSE))
            => UNCHANGED <<points, histVars, selectedPoint>>]_vars

(* The canvas is empty at the position: the hit-test returns null.         *)
EmptyAt(pos) == getHoveredElement(pos[1], pos[2]) = NoHit

C13_CreateDefaults ==
    [][\A pos \in CursorPositions :
          (Len(points') # Len(points) /\ ClickAt(pos, FALSE))
          => /\ Len(points') = Len(points) + 1
             /\ SubSeq(points', 1, Len(points)) = points
             /\ LET created == points'[Len(points')]
                IN  /\ created.color = "#3b82f6"
                    /\ created.opacity = 100
                    /\ created.radiusSq = Sq(150)
                    /\ created.shape = "blob"
                    /\ created.gradientType = "solid"
                    /\ Len(created.gradientStops) = 2
                    /\ created.gradientStops[1].color = "#3b82f6"
                    /\ created.gradientStops[1].position = 0
                    /\ created.gradientStops[2].color = "#8b5cf6"
                    /\ created.gradientStops[2].position = 100
                    /\ created.x = pos[1] - pan[1]
                    /\ created.y = pos[2] - pan[2]
                    /\ selectedPoint' = created.id]_vars

(* C13 witness: the only point was created while the view was panned by    *)
(* (20, 0): it is stored 20 to the left of a cursor position, and no drag  *)
(* has been committed since.                                               *)
C13_Witness ==
    /\ pan = <<20, 0>>
    /\ Len(points) = 1
    /\ points[1].x \in {80, 230}
    /\ points[1].radiusSq = Sq(150)
    /\ selectedPoint = points[1].id
    /\ Len(history) = 1
    /\ historyIndex = 0

(* C14: no two points of the store share an id.                            *)
C14_UniqueIds ==
    \A i, j \in 1..Len(points) : i # j => points[i].id # points[j].id

(* The ids of the points of the store.                                     *)
IdsInUse == {points[i].id : i \in 1..Len(points)}

(* C15: duplicate of an existing point appends a clone that equals the     *)
(* original in every attribute except its id, which is new, its name,      *)
(* which has one more "Copy" suffix, and its position, which is offset by  *)
(* (+20, +20); the points that were there are unchanged and the selection  *)
(* is the id of the clone.                                                 *)
C15_DuplicateClones ==
    [][\A pointId \in OperableIds, t \in ClockReadings :
          ( /\ Event
            /\ duplicatePoint(pointId, t)
            /\ UNCHANGED <<dragVars, flagVars, panStart, pan>>
            /\ Found(points, pointId) )
          => /\ Len(points') = Len(points) + 1
             /\ SubSeq(points', 1, Len(points)) = points
             /\ LET original == Find(points, pointId)
                    clone    == points'[Len(points')]
                IN  /\ clone.id \notin IdsInUse
                    /\ clone.name = [base   |-> original.name.base,
                                     copies |-> original.name.copies + 1]
                    /\ clone.x = original.x + 20
                    /\ clone.y = original.y + 20
                    /\ \A f \in DOMAIN original \ {"id", "name", "x", "y"} :
                          clone[f] = original[f]
                    /\ selectedPoint' = clone.id]_vars

(* C16: delete of an existing point removes one point, which has that id,  *)
(* and no other; the remaining points keep their order; the selection is   *)
(* cleared if the deleted point was the selected one and stays otherwise.  *)
C16_DeleteRemovesOne ==
    [][\A pointId \in OperableIds :
          ( /\ Event
            /\ deletePoint(pointId)
            /\ UNCHANGED <<dragVars, flagVars, panStart, pan, now>>
            /\ Found(points, pointId) )
          => /\ \E k \in 1..Len(points) :
                   /\ points[k].id = pointId
                   /\ points' = SubSeq(points, 1, k - 1)
                                \o SubSeq(points, k + 1, Len(points))
             /\ selectedPoint' = IF selectedPoint = pointId
                                 THEN Null
                                 ELSE selectedPoint]_vars

(* C17: delete, duplicate and update with an id that no point of the store *)
(* carries change neither the point list nor the selection nor the history *)
(* entries nor the cursor.                                                 *)
C17_MissingTargetNoOp ==
    [][/\ \A pointId \in OperableIds :
            ( /\ Event
              /\ deletePoint(pointId)
              /\ UNCHANGED <<dragVars, flagVars, panStart, pan, now>>
              /\ ~Found(points, pointId) )
            => UNCHANGED <<points, selectedPoint, histVars>>
       /\ \A pointId \in OperableIds, t \in ClockReadings :
            ( /\ Event
              /\ duplicatePoint(pointId, t)
              /\ UNCHANGED <<dragVars, flagVars, panStart, pan>>
              /\ ~Found(points, pointId) )
            => UNCHANGED <<points, selectedPoint, histVars>>
       /\ \A pos \in CursorPositions :
            ( /\ Event
              /\ handleCanvasMouseMove(pos)
              /\ ~isPanning
              /\ draggingPoint # Null
              /\ ~Found(points, draggingPoint) )
            => UNCHANGED <<points, selectedPoint, histVars>>]_vars

(* C18: a pointer move handled while a point, radius or focus drag is      *)
(* active leaves the history entries and the cursor unchanged, and the     *)
(* history entries change only in a commit step (drag end, creation,       *)
(* duplicate, delete, panel edit).                                         *)
C18_MovesDoNotCommit ==
    [][/\ \A pos \in CursorPositions :
            (Event /\ handleCanvasMouseMove(pos) /\ DragActive)
            => UNCHANGED histVars
       /\ history' # history => CommitStep]_vars

(* C18 witness: a focus drag has moved the focus of its point away from    *)
(* the centre, and the entry under the cursor still has it at the centre.  *)
C18_Witness ==
    /\ draggingFocus # Null
    /\ Found(points, draggingFocus)
    /\ Find(points, draggingFocus).focusX # 0
    /\ historyIndex >= 0
    /\ Found(history[historyIndex + 1], draggingFocus)
    /\ Find(history[historyIndex + 1], draggingFocus).focusX = 0

(***************************************************************************)
(* Properties of the pan gesture.                                          *)
(***************************************************************************)
(* C19: the steps of a pan gesture (the pointer-down with the modifier,    *)
(* the moves while panning, the pointer-up that ends the pan) leave every  *)
(* stored point, the selection, the history entries and the cursor         *)
(* unchanged.                                                              *)
C19_PanViewOnly ==
    [][/\ \A pos \in CursorPositions :
            (Event /\ handleMouseDown(pos, TRUE))
            => UNCHANGED <<points, selectedPoint, histVars>>
       /\ \A pos \in CursorPositions :
            (Event /\ handleCanvasMouseMove(pos) /\ isPanning)
            => UNCHANGED <<points, selectedPoint, histVars>>
       /\ (MouseUp /\ isPanning)
            => UNCHANGED <<points, selectedPoint, histVars, pan>>]_vars

(* C20: a pointer-down with the modifier starts panning without looking   *)
(* at what is under the pointer; the pointer-up that ends a pan leaves no  *)
(* mode active and sets panJustEnded; no pointer-down leaves the flag set;  *)
(* a click handled while panJustEnded is set adds no point, with or        *)
(* without the modifier; and a plain click on empty canvas with no flag    *)
(* and no mode creates a point.                                            *)
C20_PanSuppressesClick ==
    [][/\ \A pos \in CursorPositions :
            (Event /\ handleMouseDown(pos, TRUE))
            => /\ isPanning'
               /\ UNCHANGED <<draggingPoint, draggingRadius, draggingFocus,
                              selectedPoint>>
       /\ (isPanning /\ MouseUp) => (ActiveModes' = {} /\ panJustEnded')
       /\ panJustEnded'
            => \A pos \in CursorPositions, shiftKey \in BOOLEAN :
                  ~(Event /\ handleMouseDown(pos, shiftKey))
       /\ \A pos \in CursorPositions, shiftKey \in BOOLEAN :
            (panJustEnded /\ ClickAt(pos, shiftKey))
            => UNCHANGED <<points, histVars>>
       /\ \A pos \in CursorPositions :
            ( /\ ~panJustEnded /\ ~dragJustEnded /\ ~AnyDrag
              /\ ClickAt(pos, FALSE)
              /\ EmptyAt(pos) )
            => Len(points') = Len(points) + 1]_vars

(* C20 witness: a pan that moved the view has just ended, the flag is set, *)
(* and the click of the gesture falls on empty canvas.                     *)
C20_Witness ==
    /\ panJustEnded
    /\ ~AnyDrag
    /\ pan = <<20, 0>>
    /\ \E pos \in CursorPositions : EmptyAt(pos)
    /\ ENABLED Click


(***************************************************************************)
(* Delete followed by undo.                                                *)
(***************************************************************************)
(* The delete of a point of the live list, taken with the cursor on the    *)
(* latest entry.                                                           *)
DeleteAtLatest(pointId) ==
    /\ Event
    /\ deletePoint(pointId)
    /\ UNCHANGED <<dragVars, flagVars, panStart, pan, now>>
    /\ Found(points, pointId)
    /\ historyIndex = Len(history) - 1

(* C21 as stated: a delete of a point of the live list, taken with the     *)
(* cursor on the latest entry, leaves the cursor on a new last entry whose *)
(* predecessor is the live list as it was before the delete, deleted point *)
(* included; and an undo taken with the cursor past the first entry makes  *)
(* the predecessor of the cursor's entry the live list.  The undo that     *)
(* follows the delete would therefore restore the list from before the     *)
(* delete.                                                                 *)
C21_DeleteUndoableAlways ==
    [][/\ \A pointId \in OperableIds :
            DeleteAtLatest(pointId)
            => /\ historyIndex' = Len(history') - 1
               /\ historyIndex' >= 1
               /\ history'[historyIndex'] = points
       /\ (Undo /\ historyIndex >= 1) => points' = history[historyIndex]]_vars

(* C21: the same, for a delete taken while no move, radius or focus drag   *)
(* is active (a drag changes the live list without committing it, and the  *)
(* undo after the delete goes back to the list from before the drag).      *)
C21_DeleteUndoable ==
    [][/\ \A pointId \in OperableIds :
            (~DragActive /\ DeleteAtLatest(pointId))
            => /\ historyIndex' = Len(history') - 1
               /\ historyIndex' >= 1
               /\ history'[historyIndex'] = points
       /\ (Undo /\ historyIndex >= 1) => points' = history[historyIndex]]_vars

(* C21 witness: the second of two points has been deleted with no drag     *)
(* active; the cursor is on the entry of the delete, the entry before it   *)
(* holds both points, and undo is taken from here.                         *)
C21_Witness ==
    /\ ~DragActive
    /\ Len(history) = 3
    /\ historyIndex = 2
    /\ Len(history[2]) = 2
    /\ points = <<history[2][1]>>
    /\ history[3] = points
    /\ ENABLED Undo

(***************************************************************************)
(* Properties of the gradient stops.                                       *)
(***************************************************************************)
(* C22: the point in the panel, whose gradientType is not solid, has at    *)
(* least two stops: no removal takes the list below two.                   *)
C22_AtLeastTwoStops == Len(stops) >= 2

(* C23: the position of every stop lies in 0..100, whichever of the click  *)
(* on the slider, the stop drag, the position input and the add-stop       *)
(* button has written it.                                                  *)
C23_PositionsInRange ==
    \A i \in 1..Len(stops) : stops[i].position \in 0..100

(* C23 witness: the first default stop is being dragged and the pointer,   *)
(* 32 pixels right of the slider (125 percent), has left it at 100.        *)
C23_Witness ==
    /\ draggingStopId = "stop-1"
    /\ \E i \in 1..Len(stops) :
          stops[i].id = "stop-1" /\ stops[i].position = 100

(* Two color strings denote the same color: they are equal, or both are    *)
(* six-digit hex colors with the same channels (the case of the digits     *)
(* does not matter).                                                       *)
SameColor(a, b) ==
    \/ a = b
    \/ MatchesHex6(a) /\ MatchesHex6(b) /\ hexToRgb(a) = hexToRgb(b)

(* Slider positions (times the width) at which the ramp is sampled: the    *)
(* positions a pointer of the model can take, both ends included.          *)
SamplePositions == {SliderPosition(clientX) : clientX \in ClickXs \cup DragXs}

(* C24: sampling at the position of a stop returns the color and the alpha *)
(* of a stop at that position (alpha 100 where the stop has none); at or   *)
(* before the position of the first stop in position order it returns the  *)
(* color and alpha of the first, at or after the position of the last      *)
(* those of the last (of either where all stops share one position).       *)
C24_SampleAtStops ==
    LET sorted == sortedStops
        n      == Len(sorted)
        width  == SliderRect.width
        Is(sample, stop) ==
            SameColor(sample.color, stop.color) /\ sample.alpha = AlphaOf(stop)
    IN  n >= 1 =>
          /\ \A i \in 1..n :
                \E j \in 1..n :
                   /\ sorted[j].position = sorted[i].position
                   /\ Is(interpolateColor(sorted, sorted[i].position * width),
                         sorted[j])
          /\ \A scaled \in SamplePositions :
                /\ scaled <= sorted[1].position * width
                      => Is(interpolateColor(sorted, scaled), sorted[1])
                /\ scaled >= sorted[n].position * width
                      => \/ Is(interpolateColor(sorted, scaled), sorted[n])
                         \/ /\ scaled <= sorted[1].position * width
                            /\ Is(interpolateColor(sorted, scaled), sorted[1])

(* The click on the track of the slider of GradientEditor at a pointer     *)
(* position, taken while the editor is shown and no stop is dragged.       *)
SliderClickAt(clientX, t) ==
    /\ EditorEvent
    /\ EditorShown
    /\ draggingStopId = NoStop
    /\ handleSliderClick(clientX, t)
    /\ UNCHANGED <<draggingStopId, sliderDragging, pointColor, hexInput>>

C26_ColorsAreHex6 ==
    /\ MatchesHex6(pointColor)
    /\ \A i \in 1..Len(stops) : MatchesHex6(stops[i].color)

(***************************************************************************)
(* Further properties of the hit-test and of the drag state machine.       *)
(***************************************************************************)
(* C27: where the hit-test returns a point body, it is the body of the     *)
(* point drawn on top: of the points whose body matches the cursor         *)
(* position, the last in store order.                                      *)
C27_TopmostBody ==
    \A pos \in ProbePositions :
        LET hovered == getHoveredElement(pos[1], pos[2])
            bodies  == {i \in 1..Len(points) : BodyHit(points[i], pos[1], pos[2])}
            top     == CHOOSE i \in bodies : \A j \in bodies : j <= i
        IN  hovered.type = "point" => hovered.id = points[top].id

(* C28: a pointer-down without the pan modifier on the focus handle makes  *)
(* RedirectingFocus of that point the active mode; every pointer move of   *)
(* a focus drag sets the focus offset of the point to the pointer position *)
(* minus the centre of the point on screen, whatever its length, and       *)
(* leaves x, y and radius of the point and the other points as they are;   *)
(* the pointer-up commits and no drag mode is active after it.             *)
C28_FocusDrag ==
    [][/\ \A pos \in CursorPositions :
            ( /\ Event
              /\ handleMouseDown(pos, FALSE)
              /\ getHoveredElement(pos[1], pos[2]).type = "focus" )
            => /\ draggingFocus' = getHoveredElement(pos[1], pos[2]).id
               /\ ActiveModes' = {"RedirectingFocus"}
       /\ \A pos \in CursorPositions :
            ( /\ Event
              /\ handleCanvasMouseMove(pos)
              /\ draggingFocus # Null
              /\ Found(points, draggingFocus) )
            => /\ Len(points') = Len(points)
               /\ \A i \in 1..Len(points) :
                     IF points[i].id = draggingFocus
                     THEN /\ points'[i].focusX = pos[1] - (points[i].x + pan[1])
                          /\ points'[i].focusY = pos[2] - (points[i].y + pan[2])
                          /\ points'[i].x = points[i].x
                          /\ points'[i].y = points[i].y
                          /\ points'[i].radiusSq = points[i].radiusSq
                     ELSE points'[i] = points[i]
       /\ (MouseUp /\ draggingFocus # Null)
            => CommitsLiveList /\ ActiveModes' = {}]_vars

(* C29: with the pointer position not resolved (no canvas element), the    *)
(* pointer-down, the pointer move and the click, with or without the       *)
(* modifier, leave the drag modes, the suppression flags, the selection,   *)
(* the point list, the pan offset and the history as they are.             *)
C29_UnresolvedPositionNoOp ==
    [][/\ \A shiftKey \in BOOLEAN :
            (Event /\ handleMouseDown(NoPosition, shiftKey))
            => UNCHANGED <<dragVars, flagVars, selectedPoint, points, pan,
                           panStart, histVars>>
       /\ (Event /\ handleCanvasMouseMove(NoPosition))
            => UNCHANGED <<dragVars, flagVars, selectedPoint, points, pan,
                           panStart, histVars>>
       /\ \A shiftKey \in BOOLEAN :
            ClickAt(NoPosition, shiftKey)
            => UNCHANGED <<dragVars, flagVars, selectedPoint, points, pan,
                           panStart, histVars>>]_vars

(* C29 witness: a drag has just ended (the flag is set) with a point       *)
(* selected, and a pointer-down is taken from here; a pointer-down with a  *)
(* resolved position would clear the flag.                                 *)
C29_Witness ==
    /\ dragJustEnded
    /\ HasSelected
    /\ ENABLED (Event /\ handleMouseDown(NoPosition, FALSE))

(***************************************************************************)
(* C30.  An image that has not finished decoding is treated as absent.     *)
(* Every render runs the gradient pass for every point and the image pass  *)
(* for exactly the points whose image is set and loaded, so the image pass *)
(* of a point is omitted in every render before the load of its image      *)
(* completes; the completion of a load makes a render due, and a later     *)
(* render draws the image for every point that references it; a decode     *)
(* that never completes disables nothing: a due render still runs and      *)
(* draws the point with its gradient fill only.                            *)
(***************************************************************************)
PassesOf(pts, loaded) ==
    [ gradient |-> 1..Len(pts),
      image    |-> {i \in 1..Len(pts) : HasImage(pts[i]) /\ pts[i].image \in loaded} ]

C30_UnloadedImageAbsent ==
    /\ [](~renderDue => canvasPasses = PassesOf(points, loadedImages))
    /\ [][renderDue /\ ~renderDue' =>
            \A i \in 1..Len(points) :
               /\ i \in canvasPasses'.gradient
               /\ HasImage(points[i]) /\ points[i].image \notin loadedImages
                     => i \notin canvasPasses'.image]_vars
    /\ [][\A url \in ImageUrls :
            url \notin loadedImages /\ url \in loadedImages' => renderDue']_vars
    /\ \A url \in ImageUrls :
          (url \in loadedImages)
             ~> (/\ ~renderDue
                 /\ PointsWithImage(points, url) \subseteq canvasPasses.image)
    /\ [](renderDue => ENABLED Render)
    /\ renderDue ~> ~renderDue

(* Both cases after a render: one point shows its loaded image, another    *)
(* one, whose image is still decoding, shows its gradient fill only.       *)
C30_Witness ==
    /\ ~renderDue
    /\ \E i, j \in 1..Len(points) :
          /\ HasImage(points[i])
          /\ points[i].image \in loadedImages
          /\ i \in canvasPasses.image
          /\ HasImage(points[j])
          /\ points[j].image \notin loadedImages
          /\ decoding[points[j].image] > 0
          /\ j \in canvasPasses.gradient
          /\ j \notin canvasPasses.image

(***************************************************************************)
(* C31.  The fill of a solid point is faded per edgeType: at a distance of *)
(* f hundredths of the radius from the center the alpha is                 *)
(* opacity * (1 - f) with soft edge and, with hard edge, opacity for       *)
(* f < 0.8 and opacity * (1 - (f - 0.8) / 0.2) from there on.              *)
(* The fill of a solid point is one rgba color, the same at every          *)
(* distance; alphas are compared in millionths.                            *)
(***************************************************************************)
RadiusFractions == {0, 50, 80, 90, 100}

C31_SolidEdgeFade ==
    (gradientType = "solid" /\ fillStyle.type = "rgba") =>
        \A f \in RadiusFractions :
            fillStyle.alpha = StopOpacity(edgeType, opacity, 100, f)

(***************************************************************************)
(* C32.  For a linear or radial point every stop is emitted as a color     *)
(* stop at its position with alpha = opacity * stopAlpha * edgeFalloff,    *)
(* where edgeFalloff is 1 - position for soft edge and, for hard edge, 1   *)
(* below 0.8 and 1 - (position - 0.8) / 0.2 from there on; the color stops *)
(* are in ascending order of position whatever the order of the stops in   *)
(* the list.  Stops that agree in position and alpha are counted.          *)
(***************************************************************************)
EdgeFalloff(edge, position) ==
    IF edge = "soft" THEN 100 - position
    ELSE IF position < 80 THEN 100
    ELSE 100 - 5 * (position - 80)

ClaimedAlpha(stop) == opacity * AlphaOf(stop) * EdgeFalloff(edgeType, stop.position)

C32_StopsEmitted ==
    gradientType # "solid" =>
        LET emitted == fillStyle.colorStops
        IN  /\ \A i, j \in 1..Len(emitted) :
                  i < j => emitted[i].offset <= emitted[j].offset
            /\ \A k \in 1..Len(stops) :
                  Cardinality({i \in 1..Len(emitted) :
                                  /\ emitted[i].offset = stops[k].position
                                  /\ emitted[i].alpha = ClaimedAlpha(stops[k])})
                     >= Cardinality({j \in 1..Len(stops) :
                                        /\ stops[j].position = stops[k].position
                                        /\ ClaimedAlpha(stops[j]) = ClaimedAlpha(stops[k])})

(***************************************************************************)
(* C33.  In GradientEditor and in ColorPicker, rgbToHex(hexToRgb(h))       *)
(* equals h up to the case of the digits for every color h of the form     *)
(* #rrggbb, and hexToRgb returns no color for every string that its        *)
(* pattern does not match.  The strings are the ones the panel holds: the  *)
(* colors of the stops, which GradientEditor converts at every render, and *)
(* the point color and the text of the HEX input of ColorPicker.           *)
(***************************************************************************)
ToLowerCase(text) ==
    [i \in 1..Len(text) |->
        IF \E d \in 1..16 : UpperDigits[d] = text[i]
        THEN HexDigits[CHOOSE d \in 1..16 : UpperDigits[d] = text[i]]
        ELSE text[i]]

RoundTrips(h, rgb) ==
    /\ rgb # NoColor
    /\ ToLowerCase(rgbToHex(rgb.r, rgb.g, rgb.b)) = ToLowerCase(h)

C33_EditorCopy ==
    \A i \in 1..Len(stops) :
        LET h == stops[i].color
        IN  /\ MatchesHex6(h) => RoundTrips(h, hexToRgb(h))
            /\ ~MatchesRgbPattern(h) => hexToRgb(h) = NoColor

C33_PickerCopy ==
    \A h \in {pointColor, hexInput} :
        /\ MatchesHex6(h) => RoundTrips(h, pickerHexToRgb(h))
        /\ ~MatchesRgbPattern(h) => pickerHexToRgb(h) = NoColor

C33_HexRoundTrip == C33_EditorCopy /\ C33_PickerCopy

(***************************************************************************)
(* C34.  History cursor invariant: in every reachable state                *)
(* -1 <= historyIndex <= history.length - 1, and historyIndex is -1        *)
(* exactly when the history is empty; once the cursor is at an entry no    *)
(* step takes it below 0, so undo never brings back the empty point list   *)
(* that preceded the first commit.                                         *)
(***************************************************************************)
C34_CursorInvariant ==
    /\ [](/\ -1 <= historyIndex
          /\ historyIndex <= Len(history) - 1
          /\ (historyIndex = -1 <=> history = <<>>))
    /\ [][historyIndex >= 0 => historyIndex' >= 0]_vars

(* Undo has stepped back to the first entry and is refused there: the      *)
(* cursor is at 0 below later entries, and one more undo leaves the        *)
(* non-empty point list of the first entry in place.                       *)
C34_Witness ==
    /\ historyIndex = 0
    /\ Len(history) >= 2
    /\ points = history[1]
    /\ points # <<>>
    /\ ENABLED (Undo /\ points' = points /\ historyIndex' = 0)

(***************************************************************************)
(* C35.  Selection validity: in every reachable state selectedPoint is     *)
(* null or the id of a point of the store.                                 *)
(***************************************************************************)
C35_SelectionValid == selectedPoint = Null \/ Found(points, selectedPoint)

(***************************************************************************)
(* C36.  History/live consistency: whenever no drag mode (move, radius,    *)
(* focus or pan) is active and the history is not empty, the live point    *)
(* list equals the history entry under the cursor.                         *)
(***************************************************************************)
C36_LiveIsEntryAtCursor ==
    (ActiveModes = {} /\ history # <<>>) => points = history[historyIndex + 1]

(* A drag gesture has been completed: its pointer-up has set               *)
(* dragJustEnded and committed a list of the same points that differs      *)
(* from the entry before it, and the live list is that commit.             *)
C36_Witness ==
    /\ ActiveModes = {}
    /\ dragJustEnded
    /\ historyIndex >= 1
    /\ historyIndex = Len(history) - 1
    /\ points = history[historyIndex + 1]
    /\ Len(history[historyIndex]) = Len(points)
    /\ history[historyIndex] # points

(***************************************************************************)
(* C37.  A radius or focus drag targets the selected point only: a step    *)
(* that enters ResizingRadius(id) or RedirectingFocus(id) leaves id equal  *)
(* to selectedPoint, and while such a drag is active no pointer event on   *)
(* the canvas (click, pointer-down, move, pointer-up, leave) changes       *)
(* selectedPoint.                                                          *)
(***************************************************************************)
PointerStep == Click \/ MouseDown \/ MouseMove \/ MouseUp \/ MouseLeave

C37_HandleDragTargetsSelected ==
    [][/\ (draggingRadius' # Null /\ draggingRadius' # draggingRadius)
              => draggingRadius' = selectedPoint'
       /\ (draggingFocus' # Null /\ draggingFocus' # draggingFocus)
              => draggingFocus' = selectedPoint'
       /\ ((draggingRadius # Null \/ draggingFocus # Null)
              /\ selectedPoint' # selectedPoint)
              => ~PointerStep]_vars

(***************************************************************************)
(* C38.  The pointer-up that ends a move, radius or focus drag sets        *)
(* dragJustEnded and leaves no drag active; a click taken while the flag   *)
(* is set neither creates a point nor changes the selection; a pointer-    *)
(* down at a resolved position clears the flag; and no step sets the flag  *)
(* unless a move, radius or focus drag was active before it.               *)
(***************************************************************************)
C38_DragSuppressesClick ==
    [][/\ (DragActive /\ MouseUp) => (dragJustEnded' /\ ~DragActive')
       /\ dragJustEnded
            => \A pos \in PointerInputs, shiftKey \in BOOLEAN :
                  ClickAt(pos, shiftKey) => UNCHANGED <<points, selectedPoint, histVars>>
       /\ dragJustEnded'
            => \A pos \in CursorPositions, shiftKey \in BOOLEAN :
                  ~(Event /\ handleMouseDown(pos, shiftKey))
       /\ (~dragJustEnded /\ dragJustEnded') => DragActive]_vars

(* A drag has just ended on empty canvas: no mode is active, the flag is   *)
(* set, and a click that would create a point at some position is due.     *)
C38_Witness ==
    /\ dragJustEnded
    /\ ~panJustEnded
    /\ ~AnyDrag
    /\ Len(points) < MaxPoints
    /\ \E pos \in CursorPositions : EmptyAt(pos)
    /\ ENABLED Click

(***************************************************************************)
(* C39.  The pointer leaving the canvas acts exactly like a pointer-up:    *)
(* the same steps are possible for both; the step leaves no drag mode      *)
(* active; if a move, radius or focus drag was active it commits exactly   *)
(* one entry, the current point list, after the entry under the cursor,    *)
(* and leaves the list as it is; otherwise it changes neither the list nor *)
(* the history.                                                            *)
(***************************************************************************)
C39_LeaveIsPointerUp ==
    [][/\ MouseLeave <=> MouseUp
       /\ MouseLeave
            => /\ ActiveModes' = {}
               /\ points' = points
               /\ IF DragActive
                  THEN /\ historyIndex' = historyIndex + 1
                       /\ Len(history') = historyIndex + 2
                       /\ history'[historyIndex' + 1] = points
                       /\ SubSeq(history', 1, historyIndex + 1)
                             = SubSeq(history, 1, historyIndex + 1)
                  ELSE UNCHANGED histVars]_vars

(* The pointer can leave the canvas during a drag that has changed the     *)
(* live list since the last commit.                                        *)
C39_Witness ==
    /\ DragActive
    /\ history # <<>>
    /\ points # history[historyIndex + 1]
    /\ ENABLED MouseLeave

(***************************************************************************)
(* C40.  The hit-test depends on the cursor position and the pan offset    *)
(* only through their difference: across every step that shifts the pan    *)
(* offset by d and leaves the point list and the selection as they are,    *)
(* the hit-test at a position before the step and the hit-test at that     *)
(* position shifted by d after the step return the same target.            *)
(***************************************************************************)
PanShifts ==
    {<<p[1] - q[1], p[2] - q[2]>> : p \in PanValues, q \in PanValues} \ {<<0, 0>>}

C40_HitTestTranslation ==
    [][\A d \in PanShifts :
          ( /\ pan' = <<pan[1] + d[1], pan[2] + d[2]>>
            /\ points' = points
            /\ selectedPoint' = selectedPoint )
          => \A pos \in ProbePositions :
                getHoveredElement(pos[1], pos[2])
                   = (getHoveredElement(pos[1] + d[1], pos[2] + d[2]))']_vars

(* The view is panned while a point is selected, and the probes meet its   *)
(* focus handle, its radius handle, its body and empty canvas.             *)
C40_Witness ==
    /\ pan = <<20, 0>>
    /\ HasSelected
    /\ \A type \in {"focus", "radius", "point", "none"} :
          \E pos \in ProbePositions :
             getHoveredElement(pos[1] + 20, pos[2]).type = type

=============================================================================
